---- MODULE Spec2Model ----
(***************************************************************************)
(* Viewport transform and input-state engine of canvas-component:          *)
(* window.cvs (CanvasGlobals), the 2D context transform, the pan and zoom  *)
(* helpers and the DOM event handlers.                                     *)
(*                                                                         *)
(* Numbers.  A JavaScript number is modelled as an exact rational n/d in   *)
(* lowest terms (d > 0), or one of the three non-finite values, written    *)
(* with d = 0:  1/0 = Infinity, -1/0 = -Infinity, 0/0 = NaN.  Rounding of  *)
(* IEEE doubles and the sign of zero are not modelled.  Two NaN values     *)
(* compare equal in the model (they are the same record).                  *)
(*                                                                         *)
(* Evaluation.  Val({e : x \in {v}}) is e with x bound to the value of v:  *)
(* it is how a definition names an intermediate result that the code       *)
(* computes once and reads several times (a const, or an argument).        *)
(***************************************************************************)
EXTENDS Integers, Sequences, FiniteSets, TLC

Val(S) == CHOOSE v \in S : TRUE

Abs(i) == IF i < 0 THEN -i ELSE i

Sign(i) == IF i > 0 THEN 1 ELSE IF i < 0 THEN -1 ELSE 0

RECURSIVE GCD(_, _)
GCD(a0, b0) == Val({IF b = 0 THEN a ELSE GCD(b, a % b) : a \in {a0}, b \in {b0}})

Norm(n0, d0) ==
    Val({IF d = 0 THEN [n |-> Sign(n), d |-> 0]
         ELSE Val({[n |-> Sign(d) * (n \div g), d |-> Abs(d) \div g] :
                   g \in {GCD(Abs(n), Abs(d))}}) :
         n \in {n0}, d \in {d0}})

R(i) == [n |-> i, d |-> 1]

Frac(n, d) == Norm(n, d)

NaN == [n |-> 0, d |-> 0]

Infinity == [n |-> 1, d |-> 0]

IsNaN(a) == Val({x.d = 0 /\ x.n = 0 : x \in {a}})

IsFinite(a) == a.d # 0

Neg(a) == Val({[n |-> -x.n, d |-> x.d] : x \in {a}})

Mul(a0, b0) ==
    Val({IF a.d = 0 \/ b.d = 0 THEN Norm(Sign(a.n) * Sign(b.n), 0)
         ELSE IF a.n = 0 \/ b.n = 0 THEN R(0)
         ELSE Val({Norm((a.n \div g1) * (b.n \div g2), (a.d \div g2) * (b.d \div g1)) :
                   g1 \in {GCD(Abs(a.n), b.d)}, g2 \in {GCD(Abs(b.n), a.d)}}) :
         a \in {a0}, b \in {b0}})

Inv(b0) ==
    Val({IF b.n = 0 THEN (IF b.d = 0 THEN NaN ELSE Infinity)
         ELSE Norm(Sign(b.n) * b.d, Abs(b.n)) :
         b \in {b0}})

Div(a, b) == Mul(a, Inv(b))

Add(a0, b0) ==
    Val({IF IsNaN(a) \/ IsNaN(b) THEN NaN
         ELSE IF a.d = 0 /\ b.d = 0 THEN (IF a.n = b.n THEN a ELSE NaN)
         ELSE IF a.d = 0 THEN a
         ELSE IF b.d = 0 THEN b
         ELSE Val({Norm(a.n * (b.d \div g) + b.n * (a.d \div g), a.d * (b.d \div g)) :
                   g \in {GCD(a.d, b.d)}}) :
         a \in {a0}, b \in {b0}})

Sub(a, b) == Add(a, Neg(b))

Lt(a0, b0) ==
    Val({IF IsNaN(a) \/ IsNaN(b) THEN FALSE
         ELSE IF a.d = 0 /\ b.d = 0 THEN a.n < b.n
         ELSE a.n * b.d < b.n * a.d :
         a \in {a0}, b \in {b0}})

\* Binary digits a rounded operation keeps (a double keeps 53)
Precision == 4

RECURSIVE Pow2(_)
Pow2(k) == IF k = 0 THEN 1 ELSE 2 * Pow2(k - 1)

\* The number of Precision binary digits nearest to (a / d) / 2^k, ties to the even
\* one, for a > 0 and d > 0
RECURSIVE RoundTo(_, _, _)
RoundTo(a, d, k) ==
    IF a < Pow2(Precision - 1) * d THEN RoundTo(2 * a, d, k + 1)
    ELSE IF a >= Pow2(Precision) * d THEN RoundTo(a, 2 * d, k - 1)
    ELSE Val({IF k >= 0 THEN Frac(m, Pow2(k)) ELSE R(m * Pow2(-k)) :
              m \in {IF 2 * (a % d) > d \/ (2 * (a % d) = d /\ (a \div d) % 2 = 1)
                     THEN (a \div d) + 1 ELSE a \div d}})

\* Rounding of the exact result of an operation to a floating-point number
Round(q0) ==
    Val({IF q.d = 0 \/ q.n = 0 THEN q
         ELSE IF q.n > 0 THEN RoundTo(q.n, q.d, 0)
         ELSE Neg(RoundTo(-q.n, q.d, 0)) :
         q \in {q0}})

\* a - b on floating-point numbers
FloatSub(a, b) == Round(Sub(a, b))

\* Math.min
MathMin(a0, b0) ==
    Val({IF IsNaN(a) \/ IsNaN(b) THEN NaN
         ELSE IF Lt(b, a) THEN b ELSE a :
         a \in {a0}, b \in {b0}})

\* The exact square root of a square number (CHOOSE fails on any other).
ISqrt(k) == CHOOSE r \in 0..k : r * r = k

\* Math.hypot, exact where the result is rational
MathHypot(a0, b0) ==
    Val({IF (a.d = 0 /\ a.n # 0) \/ (b.d = 0 /\ b.n # 0) THEN Infinity
         ELSE IF IsNaN(a) \/ IsNaN(b) THEN NaN
         ELSE Val({[n |-> ISqrt(s.n), d |-> ISqrt(s.d)] :
                   s \in {Add(Mul(a, a), Mul(b, b))}}) :
         a \in {a0}, b \in {b0}})

(***************************************************************************)
(* State.                                                                  *)
(*   window  window.cvs (the CanvasGlobals object), window.ctx (the 2D     *)
(*           context: its uniform scale a and translation e, f),           *)
(*           canvas (the $canvas element's pixel size), cursor             *)
(*           (document.body.style.cursor) and focused (the canvas is the   *)
(*           document's active element)                                    *)
(*   now     Date.now()                                                    *)
(*   mouse   client position of the mouse at its last event                *)
(*   fingers the touch points on the screen, in order of arrival           *)
(*   calls   host callbacks invoked by the last handler, in order          *)
(*   thrown  the last handler ended by raising                             *)
(*   prevented  the last handler called e.preventDefault()                 *)
(*   lastOp  the last event or exported call, with its arguments           *)
(*   steps   number of events so far                                       *)
(*   pressedAt  per mouse button, when its last press was handled as a     *)
(*           click, or null                                                *)
(***************************************************************************)
VARIABLES window, now, mouse, fingers, calls, thrown, prevented, lastOp, steps, pressedAt

vars == <<window, now, mouse, fingers, calls, thrown, prevented, lastOp, steps, pressedAt>>

\* --- constants.js ---
PAN_KEY == "Space"

PAN_MOUSE_BUTTON == 1

DOUBLE_CLICK_DELAY == 300
CLEAN_MARGIN == 100

\* --- the environment: bounds and input sets ---
MaxViewSteps == 3

MaxInputSteps == 5

MaxTouchSteps == 4

MaxTouches == 3

MaxPanSteps == 4
MaxMountSteps == 3
MaxFrameSteps == 3
MaxThrowSteps == 3
MaxDebugSteps == 4
MaxFloatSteps == 3
MaxShortcutSteps == 4
MaxTouchPanSteps == 4

\* Date.now() at setup (any value above DOUBLE_CLICK_DELAY: lastMouseDown starts at 0)
StartTime == 1000

\* getBoundingClientRect() of the canvas: its left and top edge in client pixels
canvasLeft == 10

canvasTop == 20

null == -1

Buttons == {0, 1, 2}

Keys == {"Space", "KeyA", "ShiftLeft"}

\* e.code of the keys pressed while shortcuts are tested
ShortcutCodes ==
    {"ShiftLeft", "ShiftRight", "ControlLeft", "AltLeft", "AltRight",
     "KeyZ", "KeyA", "Digit1", "Numpad1", "Space"}

\* shortcut strings, written as their pieces: <<"Shift", "+", "z">> is "Shift+z"
Shortcuts ==
    {<<"Shift", "+", "z">>, <<"control", "+", "Z">>, <<"1">>, <<"Space">>,
     <<"SHIFT", "+", "Control", "+", "a">>, <<"Ctrl", "+", "z">>, <<"control", "+", "+">>}

\* client positions of pointer events: the corners of a 30 x 40 box on the canvas
ClientPoints == {<<10, 20>>, <<40, 20>>, <<40, 60>>, <<10, 60>>}

\* size of the canvas's parent element at a resize (a hidden parent has width 0)
ParentSizes == {<<60, 80>>, <<0, 80>>}

DevicePixelRatios == {1, 2}

ZoomFactors == {R(2), Frac(1, 2), R(0), R(-1)}

\* pan deltas that are floating-point numbers: whole pixels, and tenths as rounded
FloatDeltas ==
    {<<R(5), R(-3)>>, <<R(-16), R(3)>>, <<R(1), R(0)>>,
     <<Round(Frac(1, 10)), Round(Frac(-3, 10))>>, <<Round(Frac(3, 10)), R(0)>>,
     <<Round(Frac(-16, 5)), Round(Frac(1, 10))>>}

PanDeltas == {<<R(5), R(-3)>>, <<R(-5), R(3)>>}

FitSizes == {<<R(30), R(20)>>, <<R(120), R(80)>>}

\* the callback fields of window.cvs the host may set (all of them, or none)
Callbacks == {"mouseMove", "mouseDown", "mouseUp", "mouseDoubleClick", "mouseScroll",
              "keyDown", "keyUp", "resize", "focus", "blur"}

\* labels of the commands of window.cvs.debugCommands
DebugCommands == {"Close debug mode", "Reset zoom"}

undefined == -2

Pt(px, py) == [x |-> px, y |-> py]

\* --- zoom.js ---
\* Local constants of a function are bound as x \in {value}, innermost last:
\* a body is read from its last binding line upwards.
getViewBox(w) ==
    Val({[x |-> x, y |-> y, width |-> width, height |-> height,
          x2 |-> Add(x, width), y2 |-> Add(y, height)] :
         x \in {w.cvs.canvasPanOffset.x},
         y \in {w.cvs.canvasPanOffset.y},
         width \in {Div(w.canvas.width, w.cvs.zoom)},
         height \in {Div(w.canvas.height, w.cvs.zoom)}})

\* CanvasRenderingContext2D.translate: ignored when an argument is not finite
ctxTranslate(ctx0, tx0, ty0) ==
    Val({IF ~IsFinite(tx) \/ ~IsFinite(ty) THEN ctx
         ELSE [ctx EXCEPT !.e = Add(@, Mul(ctx.a, tx)), !.f = Add(@, Mul(ctx.a, ty))] :
         ctx \in {ctx0}, tx \in {tx0}, ty \in {ty0}})

\* CanvasRenderingContext2D.scale(s, s): ignored when the argument is not finite
ctxScale(ctx0, s0) ==
    Val({IF ~IsFinite(s) THEN ctx ELSE [ctx EXCEPT !.a = Mul(@, s)] :
         ctx \in {ctx0}, s \in {s0}})

\* --- pan.js ---
resetPan(w) ==
    Val({[w EXCEPT !.ctx = ctxTranslate(@, vb.x, vb.y),
                   !.cvs.canvasPanOffset = Pt(R(0), R(0))] :
         vb \in {getViewBox(w)}})

isPanning(w) == w.cvs.panning

\* panBy without the update of the stored pointer position
panByKeepsPointer(w, dx0, dy0) ==
    Val({[w EXCEPT !.ctx = ctxTranslate(@, dx, dy),
                   !.cvs.canvasPanOffset.x = Sub(@, dx),
                   !.cvs.canvasPanOffset.y = Sub(@, dy)] :
         dx \in {dx0}, dy \in {dy0}})

panBy(w, dx0, dy0) ==
    Val({[w EXCEPT !.ctx = ctxTranslate(@, dx, dy),
                   !.cvs.canvasPanOffset.x = Sub(@, dx),
                   !.cvs.canvasPanOffset.y = Sub(@, dy),
                   !.cvs.x = Sub(@, dx),
                   !.cvs.y = Sub(@, dy)] :
         dx \in {dx0}, dy \in {dy0}})

\* panBy keeping the pan offset at or above 0
panByFloatClamped(w, dx0, dy0) ==
    Val({[w EXCEPT !.ctx = ctxTranslate(@, dx, dy),
                   !.cvs.canvasPanOffset.x = IF Lt(FloatSub(@, dx), R(0)) THEN R(0)
                                             ELSE FloatSub(@, dx),
                   !.cvs.canvasPanOffset.y = IF Lt(FloatSub(@, dy), R(0)) THEN R(0)
                                             ELSE FloatSub(@, dy),
                   !.cvs.x = FloatSub(@, dx),
                   !.cvs.y = FloatSub(@, dy)] :
         dx \in {dx0}, dy \in {dy0}})

\* panBy with each -= rounded as a floating-point subtraction is
panByFloat(w, dx0, dy0) ==
    Val({[w EXCEPT !.ctx = ctxTranslate(@, dx, dy),
                   !.cvs.canvasPanOffset.x = FloatSub(@, dx),
                   !.cvs.canvasPanOffset.y = FloatSub(@, dy),
                   !.cvs.x = FloatSub(@, dx),
                   !.cvs.y = FloatSub(@, dy)] :
         dx \in {dx0}, dy \in {dy0}})

panTo(w, x, y) ==
    Val({panBy(w, Sub(vb.x, x), Sub(vb.y, y)) : vb \in {getViewBox(w)}})

startPanning(w) == [w EXCEPT !.cursor = "grabbing", !.cvs.panning = TRUE]

stopPanning(w) == [w EXCEPT !.cursor = "default", !.cvs.panning = FALSE]

\* keysDown is a JavaScript object: codes in insertion order, each true or false
KeyIsDown(w, code) ==
    \E i \in 1..Len(w.cvs.keysDown) :
        w.cvs.keysDown[i].code = code /\ w.cvs.keysDown[i].down

\* isPanKeysPressed taking "no button is down" for "the left button is down"
isPanKeysPressedNoButton(w) ==
    LET option1 == KeyIsDown(w, PAN_KEY) /\ w.cvs.mouseDown = null
        option2 == w.cvs.mouseDown = PAN_MOUSE_BUTTON
    IN  option1 \/ option2

isPanKeysPressed(w) ==
    LET option1 == KeyIsDown(w, PAN_KEY) /\ w.cvs.mouseDown = 0
        option2 == w.cvs.mouseDown = PAN_MOUSE_BUTTON
    IN  option1 \/ option2

\* --- zoom.js, continued ---
\* zoomBy storing the factor as the new zoom instead of zoom * factor
zoomBySetsZoom(w, zoomFactor0) ==
    Val({Val({Val({
        [w1 EXCEPT !.cvs.x = Add(Mul(userXRatio, nvb.width), nvb.x),
                   !.cvs.y = Add(Mul(userYRatio, nvb.height), nvb.y)] :
        nvb \in {getViewBox(w1)}}) :
        userXRatio \in {Div(Sub(w.cvs.x, vb.x), Sub(vb.x2, vb.x))},
        userYRatio \in {Div(Sub(w.cvs.y, vb.y), Sub(vb.y2, vb.y))},
        w1 \in {[w EXCEPT
                   !.ctx = ctxTranslate(ctxScale(ctxTranslate(@, vb.x, vb.y), zoomFactor),
                                        Neg(vb.x), Neg(vb.y)),
                   !.cvs.zoom = zoomFactor]}}) :
        zoomFactor \in {zoomFactor0}, vb \in {getViewBox(w)}})

zoomBy(w, zoomFactor0) ==
    Val({Val({Val({
        [w1 EXCEPT !.cvs.x = Add(Mul(userXRatio, nvb.width), nvb.x),
                   !.cvs.y = Add(Mul(userYRatio, nvb.height), nvb.y)] :
        nvb \in {getViewBox(w1)}}) :
        userXRatio \in {Div(Sub(w.cvs.x, vb.x), Sub(vb.x2, vb.x))},
        userYRatio \in {Div(Sub(w.cvs.y, vb.y), Sub(vb.y2, vb.y))},
        w1 \in {[w EXCEPT
                   !.ctx = ctxTranslate(ctxScale(ctxTranslate(@, vb.x, vb.y), zoomFactor),
                                        Neg(vb.x), Neg(vb.y)),
                   !.cvs.zoom = Mul(@, zoomFactor)]}}) :
        zoomFactor \in {zoomFactor0}, vb \in {getViewBox(w)}})

resetZoom(w) == zoomBy(w, Div(R(1), w.cvs.zoom))

zoomTo(w, zoom) == Val({zoomBy(w1, zoom) : w1 \in {resetZoom(w)}})

\* zoomAtMouse without the pan that follows the zoom
zoomAtMouseNoPan(w, zoomIn) ==
    zoomBy(w, IF zoomIn THEN Frac(11, 10) ELSE Frac(9, 10))

zoomAtMouse(w, zoomIn) ==
    Val({Val({
        IF zoomIn
        THEN panBy(w1, Neg(Div(Mul(userXRatio, nvb.width), R(10))),
                       Neg(Div(Mul(userYRatio, nvb.height), R(10))))
        ELSE panBy(w1, Div(Mul(Frac(1, 2), nvb.width), R(10)),
                       Div(Mul(Frac(1, 2), nvb.height), R(10))) :
        userXRatio \in {Div(Sub(w.cvs.x, vb.x), Sub(vb.x2, vb.x))},
        userYRatio \in {Div(Sub(w.cvs.y, vb.y), Sub(vb.y2, vb.y))},
        nvb \in {getViewBox(w1)}}) :
        vb \in {getViewBox(w)},
        w1 \in {zoomBy(w, IF zoomIn THEN Frac(11, 10) ELSE Frac(9, 10))}})

zoomIn(w) == zoomAtMouse(w, TRUE)

zoomOut(w) == zoomAtMouse(w, FALSE)

\* zoomToFit taking the larger of the two ratios
zoomToFitLargerRatio(w, toWidth, toHeight) ==
    Val({Val({zoomBy(w, IF Lt(widthRatio, heightRatio) THEN heightRatio ELSE widthRatio) :
              widthRatio \in {Div(vb.width, toWidth)},
              heightRatio \in {Div(vb.height, toHeight)}}) :
         vb \in {getViewBox(w)}})

zoomToFit(w, toWidth, toHeight) ==
    Val({Val({zoomBy(w, MathMin(widthRatio, heightRatio)) :
              widthRatio \in {Div(vb.width, toWidth)},
              heightRatio \in {Div(vb.height, toHeight)}}) :
         vb \in {getViewBox(w)}})

\* --- event-handlers.js: utils ---
\* mapClientToCanvasCoordinates without the pan offset
mapClientIgnoringPan(w, clientX, clientY) ==
    Val({Pt(Div(pointerX, w.cvs.zoom), Div(pointerY, w.cvs.zoom)) :
         pointerX \in {Sub(clientX, R(canvasLeft))},
         pointerY \in {Sub(clientY, R(canvasTop))}})

mapClientToCanvasCoordinates(w, clientX, clientY) ==
    Val({Pt(Add(Div(pointerX, w.cvs.zoom), panOffsetX),
            Add(Div(pointerY, w.cvs.zoom), panOffsetY)) :
         pointerX \in {Sub(clientX, R(canvasLeft))},
         pointerY \in {Sub(clientY, R(canvasTop))},
         panOffsetX \in {w.cvs.canvasPanOffset.x},
         panOffsetY \in {w.cvs.canvasPanOffset.y}})

\* --- globals.js: new CanvasGlobals($canvas, ctx, debug), after setupCanvas ---
CanvasGlobals(debug, autoResize, callbacks) ==
    [x |-> R(0), y |-> R(0),
     callbacks |-> callbacks,
     mouseDown |-> null, lastMouseDown |-> 0, doubleClick |-> FALSE,
     draggingOrigin |-> <<>>,
     touches |-> <<>>, touchesData |-> [zoomEnabled |-> FALSE],
     key |-> "null", keysDown |-> <<>>,
     autoResize |-> autoResize,
     debug |-> debug, debugCommandHover |-> "null",
     canvasPanOffset |-> Pt(R(0), R(0)), panning |-> FALSE,
     zoom |-> R(1)]

\* --- event-handlers.js ---
\* What a handler leaves behind: the window, the host callbacks it invoked, whether
\* it raised, and whether it called e.preventDefault()
Out(w, cs, th, pd) == [w |-> w, calls |-> cs, thrown |-> th, prevented |-> pd]

\* if (window.cvs.<name>Callback) window.cvs.<name>Callback(a, {x, y})
Invoke(w, cs, name, a) ==
    IF name \in w.cvs.callbacks
    THEN Append(cs, [cb |-> name, a |-> a, x |-> w.cvs.x, y |-> w.cvs.y])
    ELSE cs

\* the host function stored as window.cvs.<name>Callback is set and raises when called
Raises(w, name) == name \in w.cvs.callbacks /\ name \in w.throwing

\* handleMouseMove panning by the screen movement, not divided by the zoom
handleMouseMoveScreenDelta(w, e) ==
    Val({Val({
        IF isPanning(w1)
        THEN Out(panBy(w1, e.movementX, e.movementY), <<>>, FALSE, FALSE)
        ELSE Out(w1, Invoke(w1, <<>>, "mouseMove", "e"), Raises(w1, "mouseMove"), FALSE) :
        w1 \in {[w EXCEPT !.cvs.x = p.x, !.cvs.y = p.y]}}) :
        p \in {mapClientToCanvasCoordinates(w, e.clientX, e.clientY)}})

handleMouseMove(w, e) ==
    Val({Val({
        IF isPanning(w1)
        THEN Out(panBy(w1, Div(e.movementX, w1.cvs.zoom), Div(e.movementY, w1.cvs.zoom)),
                 <<>>, FALSE, FALSE)
        ELSE Out(w1, Invoke(w1, <<>>, "mouseMove", "e"), Raises(w1, "mouseMove"), FALSE) :
        w1 \in {[w EXCEPT !.cvs.x = p.x, !.cvs.y = p.y]}}) :
        p \in {mapClientToCanvasCoordinates(w, e.clientX, e.clientY)}})

\* window.cvs.debugCommandHover.callback()
debugCommandCallback(w) ==
    IF w.cvs.debugCommandHover = "Close debug mode"
    THEN [w EXCEPT !.cvs.debug = FALSE]
    ELSE resetZoom(w)

\* handleMouseDown without the return after the double-click callback
handleMouseDownFallsThrough(w, e, dateNow) ==
    LET button == e.button
        w1 == [w EXCEPT !.focused = TRUE, !.cvs.mouseDown = button]
        w2 == [w1 EXCEPT !.cvs.draggingOrigin = <<w1.cvs.x, w1.cvs.y>>,
                         !.cvs.lastMouseDown = dateNow]
    IN  IF w1.cvs.debug /\ button = 0 /\ w1.cvs.debugCommandHover # "null"
        THEN Out(debugCommandCallback(w1), <<>>, FALSE, FALSE)
        ELSE IF isPanKeysPressed(w1)
        THEN Out(startPanning(w1), <<>>, FALSE, FALSE)
        ELSE IF button = 0
        THEN IF dateNow - w1.cvs.lastMouseDown < DOUBLE_CLICK_DELAY
             THEN LET w3 == [w2 EXCEPT !.cvs.doubleClick = TRUE]
                  IN  Out(w3, Invoke(w3, Invoke(w3, <<>>, "mouseDoubleClick", button),
                                     "mouseDown", button), FALSE, FALSE)
             ELSE Out(w2, Invoke(w2, <<>>, "mouseDown", button), Raises(w2, "mouseDown"), FALSE)
        ELSE Out(w1, Invoke(w1, <<>>, "mouseDown", button), Raises(w1, "mouseDown"), FALSE)

\* handleMouseDown without the return after the debug command's callback
handleMouseDownDebugNoReturn(w, e, dateNow) ==
    LET button == e.button
        w0 == [w EXCEPT !.focused = TRUE, !.cvs.mouseDown = button]
        w1 == IF w0.cvs.debug /\ button = 0 /\ w0.cvs.debugCommandHover # "null"
              THEN debugCommandCallback(w0) ELSE w0
        w2 == [w1 EXCEPT !.cvs.draggingOrigin = <<w1.cvs.x, w1.cvs.y>>,
                         !.cvs.lastMouseDown = dateNow]
    IN  IF isPanKeysPressed(w1)
        THEN Out(startPanning(w1), <<>>, FALSE, FALSE)
        ELSE IF button = 0
        THEN IF dateNow - w1.cvs.lastMouseDown < DOUBLE_CLICK_DELAY
             THEN LET w3 == [w2 EXCEPT !.cvs.doubleClick = TRUE]
                  IN  Out(w3, Invoke(w3, <<>>, "mouseDoubleClick", button), FALSE, FALSE)
             ELSE Out(w2, Invoke(w2, <<>>, "mouseDown", button), FALSE, FALSE)
        ELSE Out(w1, Invoke(w1, <<>>, "mouseDown", button), FALSE, FALSE)

\* dateNow is the value Date.now() returns during the handler
\* handleMouseDown taking a press exactly DOUBLE_CLICK_DELAY ms after the previous one
\* for a double click
handleMouseDownInclusiveDelay(w, e, dateNow) ==
    LET button == e.button
        w1 == [w EXCEPT !.focused = TRUE, !.cvs.mouseDown = button]
        w2 == [w1 EXCEPT !.cvs.draggingOrigin = <<w1.cvs.x, w1.cvs.y>>,
                         !.cvs.lastMouseDown = dateNow]
    IN  IF w1.cvs.debug /\ button = 0 /\ w1.cvs.debugCommandHover # "null"
        THEN Out(debugCommandCallback(w1), <<>>, FALSE, FALSE)
        ELSE IF isPanKeysPressed(w1)
        THEN Out(startPanning(w1), <<>>, FALSE, FALSE)
        ELSE IF button = 0
        THEN IF dateNow - w1.cvs.lastMouseDown <= DOUBLE_CLICK_DELAY
             THEN LET w3 == [w2 EXCEPT !.cvs.doubleClick = TRUE]
                  IN  Out(w3, Invoke(w3, <<>>, "mouseDoubleClick", button), Raises(w3, "mouseDoubleClick"), FALSE)
             ELSE Out(w2, Invoke(w2, <<>>, "mouseDown", button), Raises(w2, "mouseDown"), FALSE)
        ELSE Out(w1, Invoke(w1, <<>>, "mouseDown", button), Raises(w1, "mouseDown"), FALSE)

handleMouseDown(w, e, dateNow) ==
    LET button == e.button
        w1 == [w EXCEPT !.focused = TRUE, !.cvs.mouseDown = button]
        w2 == [w1 EXCEPT !.cvs.draggingOrigin = <<w1.cvs.x, w1.cvs.y>>,
                         !.cvs.lastMouseDown = dateNow]
    IN  IF w1.cvs.debug /\ button = 0 /\ w1.cvs.debugCommandHover # "null"
        THEN Out(debugCommandCallback(w1), <<>>, FALSE, FALSE)
        ELSE IF isPanKeysPressed(w1)
        THEN Out(startPanning(w1), <<>>, FALSE, FALSE)
        ELSE IF button = 0
        THEN IF dateNow - w1.cvs.lastMouseDown < DOUBLE_CLICK_DELAY
             THEN LET w3 == [w2 EXCEPT !.cvs.doubleClick = TRUE]
                  IN  Out(w3, Invoke(w3, <<>>, "mouseDoubleClick", button), Raises(w3, "mouseDoubleClick"), FALSE)
             ELSE Out(w2, Invoke(w2, <<>>, "mouseDown", button), Raises(w2, "mouseDown"), FALSE)
        ELSE Out(w1, Invoke(w1, <<>>, "mouseDown", button), Raises(w1, "mouseDown"), FALSE)

\* e.target is "null" for an event object that was never dispatched: reading
\* e.target.localName then raises a TypeError
handleMouseUp(w, e) ==
    IF e.target = "null" THEN Out(w, <<>>, TRUE, FALSE)
    ELSE IF e.target # "html" /\ e.target # "canvas" THEN Out(w, <<>>, FALSE, FALSE)
    ELSE LET button == e.button
             w1 == [w EXCEPT !.cvs.mouseDown = null,
                             !.cvs.doubleClick = FALSE,
                             !.cvs.draggingOrigin = <<>>]
         IN  IF KeyIsDown(w1, PAN_KEY)
             THEN Out([stopPanning(w1) EXCEPT !.cursor = "grab"], <<>>, FALSE, FALSE)
             ELSE IF button = 1
             THEN Out(stopPanning(w1), <<>>, FALSE, FALSE)
             ELSE Out(w1, Invoke(w1, <<>>, "mouseUp", button), Raises(w1, "mouseUp"), FALSE)

\* handleScroll invoking the callback before the zoom action
handleScrollCallbackFirst(w, e) ==
    Val({Out(w1, Invoke(w, <<>>, "mouseScroll", e.deltaY), FALSE, FALSE) :
         w1 \in {IF e.deltaY < 0 THEN zoomIn(w)
                 ELSE IF e.deltaY > 0 THEN zoomOut(w)
                 ELSE w}})

handleScroll(w, e) ==
    Val({Out(w1, Invoke(w1, <<>>, "mouseScroll", e.deltaY), Raises(w1, "mouseScroll"), FALSE) :
         w1 \in {IF e.deltaY < 0 THEN zoomIn(w)
                 ELSE IF e.deltaY > 0 THEN zoomOut(w)
                 ELSE w}})

\* window.cvs.keysDown[code] = value
SetKey(keysDown, code, value) ==
    IF \E i \in 1..Len(keysDown) : keysDown[i].code = code
    THEN [i \in 1..Len(keysDown) |->
            IF keysDown[i].code = code THEN [code |-> code, down |-> value]
            ELSE keysDown[i]]
    ELSE Append(keysDown, [code |-> code, down |-> value])

\* handleKeyDown calling e.preventDefault() on entry, whatever the callback returns
handleKeyDownAlwaysPrevents(w, e) ==
    LET code == e.code
        w1 == [w EXCEPT !.cvs.key = code, !.cvs.keysDown = SetKey(@, code, TRUE)]
    IN  IF code = PAN_KEY
        THEN Out(IF ~w1.cvs.panning THEN [w1 EXCEPT !.cursor = "grab"] ELSE w1, <<>>, FALSE, TRUE)
        ELSE Out(w1, Invoke(w1, <<>>, "keyDown", code), Raises(w1, "keyDown"), TRUE)

\* handleKeyDown without the early return on the pan key
handleKeyDownPanKeyNotReserved(w, e) ==
    LET code == e.code
        w1 == [w EXCEPT !.cvs.key = code, !.cvs.keysDown = SetKey(@, code, TRUE)]
    IN  Out(w1, Invoke(w1, <<>>, "keyDown", code), Raises(w1, "keyDown"), "keyDown" \in w1.cvs.callbacks /\ e.ret)

\* e.ret is what the host's keyDown callback returns
handleKeyDown(w, e) ==
    LET code == e.code
        w1 == [w EXCEPT !.cvs.key = code,
                        !.cvs.keysDown = SetKey(@, code, TRUE)]
    IN  IF code = PAN_KEY
        THEN Out(IF ~w1.cvs.panning THEN [w1 EXCEPT !.cursor = "grab"] ELSE w1,
                 <<>>, FALSE, FALSE)
        ELSE Out(w1, Invoke(w1, <<>>, "keyDown", code), Raises(w1, "keyDown"),
                 "keyDown" \in w1.cvs.callbacks /\ e.ret)

\* cs: the callbacks invoked so far by the handler that calls this one
\* handleKeyUp leaving a pan alone while the pan mouse button is still held
handleKeyUpKeepsButtonPan(w, e, cs) ==
    LET code == e.code
        w1 == [w EXCEPT !.cvs.key = "null",
                        !.cvs.keysDown = SetKey(@, code, FALSE)]
    IN  IF code = PAN_KEY
        THEN Out(IF w1.cvs.mouseDown = PAN_MOUSE_BUTTON THEN w1 ELSE stopPanning(w1),
                 cs, FALSE, TRUE)
        ELSE Out(w1, Invoke(w1, cs, "keyUp", code), Raises(w1, "keyUp"), TRUE)

handleKeyUp(w, e, cs) ==
    LET code == e.code
        w1 == [w EXCEPT !.cvs.key = "null",
                        !.cvs.keysDown = SetKey(@, code, FALSE)]
    IN  IF code = PAN_KEY
        THEN Out(stopPanning(w1), cs, FALSE, TRUE)
        ELSE Out(w1, Invoke(w1, cs, "keyUp", code), Raises(w1, "keyUp"), TRUE)

\* Setting $canvas.width or $canvas.height resets the context to its default state
handleResize(w, e) ==
    Val({Out(w3, Invoke(w3, <<>>, "resize", "e"), Raises(w3, "resize"), FALSE) :
         w3 \in {IF w.cvs.autoResize
                 THEN Val({Val({
                          [w2 EXCEPT !.canvas = [width |-> R(e.parent[1] * e.dpr),
                                                 height |-> R(e.parent[2] * e.dpr)],
                                     !.ctx = [a |-> R(1), e |-> R(0), f |-> R(0)],
                                     !.painted = FALSE] :
                          w2 \in {resetZoom(w1)}}) :
                          w1 \in {resetPan(w)}})
                 ELSE w}})

handleFocus(w, e) == Out(w, Invoke(w, <<>>, "focus", "e"), Raises(w, "focus"), FALSE)

\* for (const key in window.cvs.keysDown) ...: the keys from index i on
RECURSIVE blurKeys(_, _, _)
blurKeys(w, cs, i) ==
    IF i > Len(w.cvs.keysDown) THEN Out(w, cs, FALSE, FALSE)
    ELSE IF w.cvs.keysDown[i].down
    THEN Val({IF r.thrown THEN Out(r.w, r.calls, TRUE, FALSE)
              ELSE blurKeys(r.w, r.calls, i + 1) :
              r \in {handleKeyUp(w, [code |-> w.cvs.keysDown[i].code], cs)}})
    ELSE blurKeys(w, cs, i + 1)

\* if (window.cvs.mouseDown): null and 0 are both falsy.  The synthetic event has
\* button = window.cvs.mouse (undefined) and no target.
handleBlur(w, e) ==
    Val({IF r1.thrown THEN Out(r1.w, r1.calls, TRUE, FALSE)
         ELSE IF r1.w.cvs.mouseDown # null /\ r1.w.cvs.mouseDown # 0
         THEN Val({IF r2.thrown THEN Out(r2.w, r1.calls \o r2.calls, TRUE, FALSE)
                   ELSE Out(r2.w, Invoke(r2.w, r1.calls \o r2.calls, "blur", "e"),
                            Raises(r2.w, "blur"), FALSE) :
                   r2 \in {handleMouseUp(r1.w, [button |-> undefined, target |-> "null"])}})
         ELSE Out(r1.w, Invoke(r1.w, r1.calls, "blur", "e"), Raises(r1.w, "blur"), FALSE) :
         r1 \in {blurKeys(w, <<>>, 1)}})

\* window.cvs.touches = touches.map(...)
saveTouches(w, touches, tag) ==
    [w EXCEPT !.cvs.touches =
        [i \in 1..Len(touches) |->
            Val({[id |-> touches[i].identifier, x |-> p.x, y |-> p.y, tag |-> tag] :
                 p \in {mapClientToCanvasCoordinates(w, touches[i].clientX,
                                                     touches[i].clientY)}})]]

\* The touchesData of a two-finger start: distance and centre of touches A and B
pinchStartData(w1, p, tA, tB) ==
    Val({[zoomEnabled |-> TRUE,
          distance |-> MathHypot(Sub(tA.clientX, tB.clientX), Sub(tA.clientY, tB.clientY)),
          originalZoom |-> w1.cvs.zoom,
          originalX |-> Div(Add(p.x, pB.x), R(2)),
          originalY |-> Div(Add(p.y, pB.y), R(2))] :
         pB \in {mapClientToCanvasCoordinates(w1, tB.clientX, tB.clientY)}})

handleTouchStart(w, e, dateNow) ==
    Val({Val({Val({Val({
        Out(r.w, r.calls, r.thrown, TRUE) :
        r \in {handleMouseDown(w2, [button |-> 0], dateNow)}}) :
        w2 \in {[w1 EXCEPT !.cvs.touchesData =
                   IF Len(e.touches) = 2
                   THEN pinchStartData(w1, p, e.touches[1], e.touches[2])
                   ELSE [zoomEnabled |-> FALSE,
                         originalZoom |-> w1.cvs.zoom,
                         originalX |-> p.x, originalY |-> p.y]]}}) :
        w1 \in {saveTouches([w EXCEPT !.cvs.x = p.x, !.cvs.y = p.y], e.touches, "start")}}) :
        p \in {mapClientToCanvasCoordinates(w, e.touches[1].clientX, e.touches[1].clientY)}})

\* The two-finger branch of handleTouchMove; p is the first touch as mapped on entry
pinchMove(w1, p, tA, tB) ==
    Val({Val({Val({Val({
        panBy(w3, Sub(Div(Add(p.x, pB.x), R(2)), w3.cvs.touchesData.originalX),
                  Sub(Div(Add(p.y, pB.y), R(2)), w3.cvs.touchesData.originalY)) :
        pB \in {mapClientToCanvasCoordinates(w3, tB.clientX, tB.clientY)}}) :
        w3 \in {zoomTo(w2, Mul(w2.cvs.touchesData.originalZoom, delta))}}) :
        w2 \in {[w1 EXCEPT !.cvs.touchesData =
                   [zoomEnabled |-> TRUE, distance |-> @.distance,
                    originalZoom |-> @.originalZoom,
                    originalX |-> @.originalX, originalY |-> @.originalY,
                    delta |-> delta]]}}) :
        delta \in {Div(MathHypot(Sub(tA.clientX, tB.clientX), Sub(tA.clientY, tB.clientY)),
                       w1.cvs.touchesData.distance)}})

handleTouchMove(w, e) ==
    Val({Val({
        IF w1.cvs.touchesData.zoomEnabled
        THEN Out(pinchMove(w1, p, e.touches[1], e.touches[2]),
                 <<>>, FALSE, e.target = "canvas")
        ELSE Val({Out(r.w, r.calls, r.thrown, e.target = "canvas") :
                  r \in {handleMouseMove(w1, [clientX |-> e.touches[1].clientX,
                                              clientY |-> e.touches[1].clientY,
                                              movementX |-> movementX,
                                              movementY |-> movementY])}}) :
        movementX \in {Div(Sub(p.x, w.cvs.x), w.cvs.zoom)},
        movementY \in {Div(Sub(p.y, w.cvs.y), w.cvs.zoom)},
        w1 \in {saveTouches([w EXCEPT !.cvs.x = p.x, !.cvs.y = p.y], e.touches, "move")}}) :
        p \in {mapClientToCanvasCoordinates(w, e.touches[1].clientX, e.touches[1].clientY)}})

handleTouchEnd(w, e) ==
    Val({handleMouseUp(w2, [button |-> 0, target |-> e.changedTouches[1].target]) :
         w2 \in {[saveTouches(w, e.touches, "end") EXCEPT
                    !.cvs.touchesData = [zoomEnabled |-> FALSE, delta |-> R(0)]]}})

\* --- setup.js ---
\* the listeners setupAfterCanvas adds with addEventListener, as <<target, type>>; the
\* canvas's own onMouseDown, onTouchStart, onWheel, onFocus and onBlur are attributes of
\* the element the component renders
setupAfterCanvas ==
    {<<"window", "mouseup">>, <<"window", "touchend">>, <<"window", "resize">>,
     <<"canvas", "keydown">>, <<"canvas", "keyup">>,
     <<"document", "mousemove">>, <<"document", "touchmove">>}

\* unmountCanvas leaving the touchmove listener on the document
unmountCanvasKeepsTouchMove(w) ==
    [w EXCEPT !.listeners = @ \ {<<"window", "mouseup">>, <<"window", "touchend">>,
                                 <<"window", "resize">>,
                                 <<"canvas", "keydown">>, <<"canvas", "keyup">>,
                                 <<"document", "mousemove">>}]

\* removeEventListener matches on target, type, handler and capture flag: the
\* {passive: false} given when touchmove was added plays no part
unmountCanvas(w) ==
    [w EXCEPT !.listeners = @ \ {<<"window", "mouseup">>, <<"window", "touchend">>,
                                 <<"window", "resize">>,
                                 <<"canvas", "keydown">>, <<"canvas", "keyup">>,
                                 <<"document", "mousemove">>, <<"document", "touchmove">>}]

\* CanvasRenderingContext2D.clearRect (fillRect with the background colour, when there
\* is one, covers the same rectangle): ignored when an argument is not finite; the
\* rectangle is in user space, so what it wipes depends on the context transform.
\* painted: the bitmap still shows something drawn earlier.
clearRect(w0, x0, y0, width0, height0) ==
    Val({IF ~IsFinite(x) \/ ~IsFinite(y) \/ ~IsFinite(width) \/ ~IsFinite(height)
         THEN w
         ELSE Val({IF /\ (~Lt(R(0), left) \/ ~Lt(R(0), right))
                      /\ (~Lt(left, w.canvas.width) \/ ~Lt(right, w.canvas.width))
                      /\ (~Lt(R(0), top) \/ ~Lt(R(0), bottom))
                      /\ (~Lt(top, w.canvas.height) \/ ~Lt(bottom, w.canvas.height))
                   THEN [w EXCEPT !.painted = FALSE]
                   ELSE w :
                   left \in {Add(Mul(w.ctx.a, x), w.ctx.e)},
                   right \in {Add(Mul(w.ctx.a, Add(x, width)), w.ctx.e)},
                   top \in {Add(Mul(w.ctx.a, y), w.ctx.f)},
                   bottom \in {Add(Mul(w.ctx.a, Add(y, height)), w.ctx.f)}}) :
         w \in {w0}, x \in {x0}, y \in {y0}, width \in {width0}, height \in {height0}})

\* window.cvs.clean()
clean(w) ==
    Val({clearRect(w, Sub(coords.x, margin), Sub(coords.y, margin),
                   Add(coords.width, Mul(margin, R(2))),
                   Add(coords.height, Mul(margin, R(2)))) :
         coords \in {getViewBox(w)}, margin \in {R(CLEAN_MARGIN)}})

\* One tick of mainLoop's loop: clean, the host's draw callback (it paints; the log
\* records whether the bitmap it painted on had been wiped), requestAnimationFrame(loop)
loop(w) ==
    Val({Out([w1 EXCEPT !.painted = TRUE, !.animationFrames = @ + 1],
             <<[cb |-> "clean", a |-> "frame", x |-> w.cvs.x, y |-> w.cvs.y],
               [cb |-> "callback", a |-> IF w1.painted THEN "uncleared" ELSE "cleared",
                x |-> w.cvs.x, y |-> w.cvs.y],
               [cb |-> "requestAnimationFrame", a |-> "loop", x |-> w.cvs.x, y |-> w.cvs.y]>>,
             FALSE, FALSE) :
         w1 \in {clean(w)}})

mainLoop(w) == loop(w)

Init ==
    /\ \E debug \in BOOLEAN, autoResize \in BOOLEAN, callbacks \in {Callbacks, {}},
          throwing \in {{}, Callbacks} :
         window = [cvs |-> CanvasGlobals(debug, autoResize, callbacks),
                   ctx |-> [a |-> R(1), e |-> R(0), f |-> R(0)],
                   canvas |-> [width |-> R(60), height |-> R(80)],
                   cursor |-> "default",
                   focused |-> TRUE,
                   listeners |-> setupAfterCanvas,
                   painted |-> FALSE,
                   animationFrames |-> 0,
                   throwing |-> throwing]
    /\ now = StartTime
    /\ mouse = <<canvasLeft, canvasTop>>
    /\ fingers = <<>>
    /\ calls = <<>>
    /\ thrown = FALSE
    /\ prevented = FALSE
    /\ lastOp = [op |-> "setup"]
    /\ steps = 0
    /\ pressedAt = [b \in Buttons |-> null]

\* ---------------------------------------------------------------------------
\* utils/keyboard.js
\* ---------------------------------------------------------------------------

\* string.split("+"): the pieces between the "+" signs, empty pieces included
RECURSIVE splitFrom(_, _, _)
splitFrom(string, i, piece) ==
    IF i > Len(string) THEN <<piece>>
    ELSE IF string[i] = "+" THEN <<piece>> \o splitFrom(string, i + 1, "")
    ELSE splitFrom(string, i + 1, piece \o string[i])

split(string) == splitFrom(string, 1, "")

\* code.match(/^\d$/)
IsDigit(code) == code \in {"0", "1", "2", "3", "4", "5", "6", "7", "8", "9"}

LowerCase ==
    <<"a", "b", "c", "d", "e", "f", "g", "h", "i", "j", "k", "l", "m",
      "n", "o", "p", "q", "r", "s", "t", "u", "v", "w", "x", "y", "z">>

UpperCase ==
    <<"A", "B", "C", "D", "E", "F", "G", "H", "I", "J", "K", "L", "M",
      "N", "O", "P", "Q", "R", "S", "T", "U", "V", "W", "X", "Y", "Z">>

\* code.match(/^[a-z]$/i)
IsLetter(code) == \E i \in 1..26 : code = LowerCase[i] \/ code = UpperCase[i]

\* code.toUpperCase() of a single letter
toUpperCase(code) ==
    IF \E i \in 1..26 : code = LowerCase[i]
    THEN UpperCase[CHOOSE i \in 1..26 : code = LowerCase[i]]
    ELSE code

\* code.toLowerCase() of a word: the spellings of the five alias words, any other
\* word lower-cases to a word that is none of the switch's cases
toLowerCase(code) ==
    CASE code \in {"control", "Control", "CONTROL"} -> "control"
      [] code \in {"alt", "Alt", "ALT"} -> "alt"
      [] code \in {"shift", "Shift", "SHIFT"} -> "shift"
      [] code \in {"meta", "Meta", "META"} -> "meta"
      [] code \in {"arrow", "Arrow", "ARROW"} -> "arrow"
      [] OTHER -> code

getKeysFromAlias(code) ==
    IF IsDigit(code) THEN <<"Digit" \o code, "Numpad" \o code>>
    ELSE IF IsLetter(code) THEN <<"Key" \o toUpperCase(code)>>
    ELSE CASE toLowerCase(code) = "control" -> <<"ControlLeft", "ControlRight">>
           [] toLowerCase(code) = "alt" -> <<"AltLeft", "AltRight">>
           [] toLowerCase(code) = "shift" -> <<"ShiftLeft", "ShiftRight">>
           [] toLowerCase(code) = "meta" -> <<"MetaLeft", "MetaRight">>
           [] toLowerCase(code) = "arrow" -> <<"ArrowUp", "ArrowDown", "ArrowLeft", "ArrowRight">>
           [] OTHER -> <<code>>

checkKey(w, aliasOrKey) ==
    \E i \in 1..Len(getKeysFromAlias(aliasOrKey)) :
        KeyIsDown(w, getKeysFromAlias(aliasOrKey)[i])

\* keys.map(key => getKeysFromAlias(key)).flat()
RECURSIVE flatAliases(_)
flatAliases(keys) ==
    IF keys = <<>> THEN <<>>
    ELSE getKeysFromAlias(Head(keys)) \o flatAliases(Tail(keys))

\* checkShortcut without the loop over the keys that are down
checkShortcutIgnoresOtherKeys(w, string) ==
    \A i \in 1..Len(split(string)) : checkKey(w, split(string)[i])

checkShortcut(w, string) ==
    LET keys == split(string)
        allPressed == \A i \in 1..Len(keys) : checkKey(w, keys[i])
        validKeys == flatAliases(keys)
    IN  IF ~allPressed THEN FALSE
        ELSE \A k \in 1..Len(w.cvs.keysDown) :
                LET isPressed == w.cvs.keysDown[k].down
                    includes == \E j \in 1..Len(validKeys) : validKeys[j] = w.cvs.keysDown[k].code
                IN  ~(~includes /\ isPressed)

\* Object.keys(keysDown).sort(): the key codes in the order of their UTF-16 code units
SortedCodes ==
    <<"AltLeft", "AltRight", "ControlLeft", "ControlRight", "Digit1", "KeyA", "KeyZ",
      "MetaLeft", "MetaRight", "Numpad1", "ShiftLeft", "ShiftRight", "Space">>

\* key.match(/(control|alt|shift|meta)/i)
MatchesModifier(key) ==
    key \in {"ControlLeft", "ControlRight", "AltLeft", "AltRight",
             "ShiftLeft", "ShiftRight", "MetaLeft", "MetaRight"}

\* `case "ControlLeft" || "ControlRight"` is `case "ControlLeft"`; the other codes lose
\* their first "key", "digit" or "numpad" and are lower-cased
getKeyFromCode(code) ==
    CASE code = "ControlLeft" -> "control"
      [] code = "AltLeft" -> "alt"
      [] code = "ShiftLeft" -> "shift"
      [] code = "MetaLeft" -> "meta"
      [] code = "ControlRight" -> "controlright"
      [] code = "AltRight" -> "altright"
      [] code = "ShiftRight" -> "shiftright"
      [] code = "MetaRight" -> "metaright"
      [] code = "KeyA" -> "a"
      [] code = "KeyZ" -> "z"
      [] code = "Digit1" -> "1"
      [] code = "Numpad1" -> "1"
      [] code = "Space" -> "space"
      [] OTHER -> code

\* shortcut.join("+"), as pieces and "+" signs
RECURSIVE join(_)
join(pieces) ==
    IF Len(pieces) <= 1 THEN pieces
    ELSE <<Head(pieces), "+">> \o join(Tail(pieces))

\* the pressed keys that are no modifiers, sorted, as getKeyFromCode names them
RECURSIVE pressedKeysFrom(_, _)
pressedKeysFrom(w, i) ==
    IF i > Len(SortedCodes) THEN <<>>
    ELSE IF KeyIsDown(w, SortedCodes[i]) /\ ~MatchesModifier(SortedCodes[i])
    THEN <<getKeyFromCode(SortedCodes[i])>> \o pressedKeysFrom(w, i + 1)
    ELSE pressedKeysFrom(w, i + 1)

\* keysDown["Altright"] is the entry of a code no keyboard event carries
getPressedShortcut(w) ==
    join((IF KeyIsDown(w, "ControlLeft") \/ KeyIsDown(w, "ControlRight")
          THEN <<"control">> ELSE <<>>)
         \o (IF KeyIsDown(w, "AltLeft") \/ KeyIsDown(w, "Altright")
             THEN <<"alt">> ELSE <<>>)
         \o (IF KeyIsDown(w, "ShiftLeft") \/ KeyIsDown(w, "ShiftRight")
             THEN <<"shift">> ELSE <<>>)
         \o (IF KeyIsDown(w, "MetaLeft") \/ KeyIsDown(w, "MetaRight")
             THEN <<"meta">> ELSE <<>>)
         \o pressedKeysFrom(w, 1))

\* An exported function called by the host: no callback, no exception
Call(w0, op) == \E w \in {w0} :
    /\ window' = w
    /\ lastOp' = op
    /\ calls' = <<>>
    /\ thrown' = FALSE
    /\ prevented' = FALSE
    /\ steps' = steps + 1
    /\ UNCHANGED <<now, mouse, fingers, pressedAt>>

PanBy == \E d \in PanDeltas :
    Call(panBy(window, d[1], d[2]), [op |-> "panBy", dx |-> d[1], dy |-> d[2]])

\* panBy on floating-point numbers
PanByFloat == \E d \in FloatDeltas :
    Call(panByFloat(window, d[1], d[2]), [op |-> "panBy", dx |-> d[1], dy |-> d[2]])

PanTo == \E d \in PanDeltas :
    Call(panTo(window, d[1], d[2]), [op |-> "panTo", x |-> d[1], y |-> d[2]])

ResetPan == Call(resetPan(window), [op |-> "resetPan"])

ZoomBy == \E f \in ZoomFactors :
    Call(zoomBy(window, f), [op |-> "zoomBy", zoomFactor |-> f])

ZoomTo == \E z \in ZoomFactors :
    Call(zoomTo(window, z), [op |-> "zoomTo", zoom |-> z])

ZoomAtMouse == \E b \in BOOLEAN :
    Call(zoomAtMouse(window, b), [op |-> "zoomAtMouse", zoomIn |-> b])

ZoomToFit == \E s \in FitSizes :
    Call(zoomToFit(window, s[1], s[2]), [op |-> "zoomToFit", toWidth |-> s[1], toHeight |-> s[2]])

ResetZoom == Call(resetZoom(window), [op |-> "resetZoom"])

\* A DOM event delivered to its handler, which leaves r behind
Run(r0, op) == \E r \in {r0} :
    /\ window' = r.w
    /\ calls' = r.calls
    /\ thrown' = r.thrown
    /\ prevented' = r.prevented
    /\ lastOp' = op
    /\ steps' = steps + 1

\* The browser dispatches an event of `type` at `target`: the handler added with
\* addEventListener runs if it is still registered, else nothing does
Dispatch(target, type, r0, op) ==
    IF <<target, type>> \in window.listeners
    THEN Run(r0, op)
    ELSE Run(Out(window, <<>>, FALSE, FALSE), op)

\* The canvas has an area the pointer can be over
CanvasVisible == window.canvas.width # R(0) /\ window.canvas.height # R(0)

\* document 'mousemove'
MouseMove == \E p \in ClientPoints :
    /\ p # mouse
    /\ Dispatch("document", "mousemove", handleMouseMove(window, [clientX |-> R(p[1]), clientY |-> R(p[2]),
                                    movementX |-> R(p[1] - mouse[1]),
                                    movementY |-> R(p[2] - mouse[2])]),
           [op |-> "mousemove", clientX |-> R(p[1]), clientY |-> R(p[2])])
    /\ mouse' = p
    /\ UNCHANGED <<now, fingers, pressedAt>>

\* canvas onMouseDown.  pressedAt keeps the time of a press that reached the click
\* handling (debug mode off, no pan started) until the next press of that button.
MouseDown == \E button \in Buttons :
    /\ CanvasVisible
    /\ Run(handleMouseDown(window, [button |-> button], now),
           [op |-> "mousedown", button |-> button])
    /\ pressedAt' = [pressedAt EXCEPT ![button] =
                        IF ~window.cvs.debug /\ ~isPanKeysPressed(window') THEN now
                        ELSE null]
    /\ UNCHANGED <<now, mouse, fingers>>

\* window 'mouseup'
MouseUp == \E button \in Buttons, target \in {"canvas", "div"} :
    /\ Dispatch("window", "mouseup", handleMouseUp(window, [button |-> button, target |-> target]),
           [op |-> "mouseup", button |-> button, target |-> target])
    /\ UNCHANGED <<now, mouse, fingers, pressedAt>>

\* canvas onWheel
Scroll == \E deltaY \in {-100, 0, 100} :
    /\ CanvasVisible
    /\ Run(handleScroll(window, [deltaY |-> deltaY]), [op |-> "wheel", deltaY |-> deltaY])
    /\ UNCHANGED <<now, mouse, fingers, pressedAt>>

\* canvas 'keydown': the canvas has the focus
KeyDown == \E code \in Keys, ret \in BOOLEAN :
    /\ window.focused
    /\ ret => ("keyDown" \in window.cvs.callbacks /\ code # PAN_KEY
               /\ "keyDown" \notin window.throwing)
    /\ Dispatch("canvas", "keydown", handleKeyDown(window, [code |-> code, ret |-> ret]),
           [op |-> "keydown", code |-> code, ret |-> ret])
    /\ UNCHANGED <<now, mouse, fingers, pressedAt>>

\* canvas 'keyup'
KeyUp == \E code \in Keys :
    /\ window.focused
    /\ Dispatch("canvas", "keyup", handleKeyUp(window, [code |-> code], <<>>), [op |-> "keyup", code |-> code])
    /\ UNCHANGED <<now, mouse, fingers, pressedAt>>

\* canvas 'keydown' of any of the keys used in shortcuts (no keyDown callback set)
ShortcutKeyDown == \E code \in ShortcutCodes :
    /\ window.focused
    /\ Dispatch("canvas", "keydown", handleKeyDown(window, [code |-> code, ret |-> FALSE]),
           [op |-> "keydown", code |-> code, ret |-> FALSE])
    /\ UNCHANGED <<now, mouse, fingers, pressedAt>>

ShortcutKeyUp == \E code \in ShortcutCodes :
    /\ window.focused
    /\ Dispatch("canvas", "keyup", handleKeyUp(window, [code |-> code], <<>>), [op |-> "keyup", code |-> code])
    /\ UNCHANGED <<now, mouse, fingers, pressedAt>>

\* The host calls checkShortcut(string); the returned value is kept in lastOp
CheckShortcut == \E string \in Shortcuts :
    Call(window, [op |-> "checkShortcut", string |-> string,
                  result |-> checkShortcut(window, string)])

\* The host calls getPressedShortcut(); the returned string is kept in lastOp
GetPressedShortcut ==
    Call(window, [op |-> "getPressedShortcut", result |-> getPressedShortcut(window)])

\* window 'resize'
Resize == \E parent \in ParentSizes, dpr \in DevicePixelRatios :
    /\ Dispatch("window", "resize", handleResize(window, [parent |-> parent, dpr |-> dpr]),
           [op |-> "resize", parent |-> parent, dpr |-> dpr])
    /\ UNCHANGED <<now, mouse, fingers, pressedAt>>

\* canvas onFocus
Focus ==
    /\ ~window.focused
    /\ Run(handleFocus([window EXCEPT !.focused = TRUE], "e"), [op |-> "focus"])
    /\ UNCHANGED <<now, mouse, fingers, pressedAt>>

\* canvas onBlur
Blur ==
    /\ window.focused
    /\ Run(handleBlur([window EXCEPT !.focused = FALSE], "e"), [op |-> "blur"])
    /\ UNCHANGED <<now, mouse, fingers, pressedAt>>

\* Time passes between two events
Tick == \E d \in {1, DOUBLE_CLICK_DELAY - 1} :
    /\ now' = now + d
    /\ steps' = steps + 1
    /\ lastOp' = [op |-> "tick", d |-> d]
    /\ UNCHANGED <<window, mouse, fingers, calls, thrown, prevented, pressedAt>>

\* window.cvs.drawDebugInfo(), called by the host's draw callback in debug mode: sets
\* the hovered command from the pointer position and the measured label widths
DrawDebugInfo == \E hover \in DebugCommands \cup {"null"} :
    /\ window.cvs.debug
    /\ hover # window.cvs.debugCommandHover
    /\ window' = [window EXCEPT !.cvs.debugCommandHover = hover]
    /\ steps' = steps + 1
    /\ lastOp' = [op |-> "drawDebugInfo", hover |-> hover]
    /\ UNCHANGED <<now, mouse, fingers, calls, thrown, prevented, pressedAt>>

\* the smallest touch identifier not in use
FreshId == CHOOSE i \in 0..Len(fingers) : \A k \in 1..Len(fingers) : fingers[k].identifier # i

\* A finger lands: canvas onTouchStart when it lands on the canvas
TouchStart == \E p \in ClientPoints, target \in {"canvas", "div"} :
    LET touch == [identifier |-> FreshId, clientX |-> R(p[1]), clientY |-> R(p[2]),
                  target |-> target]
    IN  /\ Len(fingers) < MaxTouches
        /\ target = "canvas" => CanvasVisible
        /\ fingers' = Append(fingers, touch)
        /\ IF target = "canvas"
           THEN Run(handleTouchStart(window, [touches |-> fingers'], now),
                    [op |-> "touchstart", touch |-> touch])
           ELSE Run(Out(window, <<>>, FALSE, FALSE), [op |-> "touchstart", touch |-> touch])
        /\ UNCHANGED <<now, mouse, pressedAt>>

\* document 'touchmove': one finger moves
TouchMove == \E i \in 1..Len(fingers), p \in ClientPoints :
    LET touch == [fingers[i] EXCEPT !.clientX = R(p[1]), !.clientY = R(p[2])]
    IN  /\ touch # fingers[i]
        /\ fingers' = [fingers EXCEPT ![i] = touch]
        /\ Dispatch("document", "touchmove", handleTouchMove(window, [touches |-> fingers', target |-> touch.target]),
               [op |-> "touchmove", touch |-> touch])
        /\ UNCHANGED <<now, mouse, pressedAt>>

\* window 'touchend': one finger lifts
TouchEnd == \E i \in 1..Len(fingers) :
    /\ fingers' = [k \in 1..(Len(fingers) - 1) |->
                      IF k < i THEN fingers[k] ELSE fingers[k + 1]]
    /\ Dispatch("window", "touchend", handleTouchEnd(window, [touches |-> fingers', changedTouches |-> <<fingers[i]>>]),
           [op |-> "touchend", touch |-> fingers[i]])
    /\ UNCHANGED <<now, mouse, pressedAt>>

\* The host tears the canvas down
UnmountCanvas ==
    Call(unmountCanvas(window), [op |-> "unmountCanvas"])

\* The host starts the frame loop; mainLoop "will be called only once"
MainLoop ==
    /\ window.animationFrames = 0
    /\ Run(mainLoop(window), [op |-> "mainLoop"])
    /\ UNCHANGED <<now, mouse, fingers, pressedAt>>

\* The browser runs a requested animation frame
AnimationFrame ==
    /\ window.animationFrames > 0
    /\ Run(loop([window EXCEPT !.animationFrames = @ - 1]), [op |-> "animationFrame"])
    /\ UNCHANGED <<now, mouse, fingers, pressedAt>>

\* The viewport: the exported pan and zoom functions, pointer moves, wheel, resize
InitView == Init /\ ~window.cvs.debug /\ window.throwing = {}

NextView ==
    \/ steps < MaxViewSteps /\ PanBy
    \/ steps < MaxViewSteps /\ PanTo
    \/ steps < MaxViewSteps /\ ResetPan
    \/ steps < MaxViewSteps /\ ZoomBy
    \/ steps < MaxViewSteps /\ ZoomTo
    \/ steps < MaxViewSteps /\ ZoomAtMouse
    \/ steps < MaxViewSteps /\ ZoomToFit
    \/ steps < MaxViewSteps /\ ResetZoom
    \/ steps < MaxViewSteps /\ MouseMove
    \/ steps < MaxViewSteps /\ Scroll
    \/ steps < MaxViewSteps /\ Resize

SpecView == InitView /\ [][NextView]_vars

\* Keyboard, mouse buttons and focus
InitInput == Init /\ ~window.cvs.autoResize /\ window.throwing = {}

NextInput ==
    \/ steps < MaxInputSteps /\ MouseDown
    \/ steps < MaxInputSteps /\ MouseUp
    \/ steps < MaxInputSteps /\ KeyDown
    \/ steps < MaxInputSteps /\ KeyUp
    \/ steps < MaxInputSteps /\ Blur
    \/ steps < MaxInputSteps /\ Focus
    \/ steps < MaxInputSteps /\ Tick
    \/ steps < MaxInputSteps /\ DrawDebugInfo

SpecInput == InitInput /\ [][NextInput]_vars

\* Touch gestures
InitTouch == Init /\ ~window.cvs.debug /\ ~window.cvs.autoResize /\ window.throwing = {}

NextTouch ==
    \/ steps < MaxTouchSteps /\ TouchStart
    \/ steps < MaxTouchSteps /\ TouchMove
    \/ steps < MaxTouchSteps /\ TouchEnd

SpecTouch == InitTouch /\ [][NextTouch]_vars

\* Panning: panBy and the drag gesture, with keys and buttons held, zoomed or not
InitPan == Init /\ ~window.cvs.debug /\ ~window.cvs.autoResize /\ window.throwing = {}

NextPan ==
    \/ steps < MaxPanSteps /\ PanBy
    \/ steps < MaxPanSteps /\ ZoomBy
    \/ steps < MaxPanSteps /\ KeyDown
    \/ steps < MaxPanSteps /\ MouseDown
    \/ steps < MaxPanSteps /\ MouseUp
    \/ steps < MaxPanSteps /\ MouseMove

SpecPan == InitPan /\ [][NextPan]_vars

\* Teardown: the events of the listeners added at setup, before and after unmountCanvas
InitMount == Init /\ ~window.cvs.debug /\ window.throwing = {}

NextMount ==
    \/ steps < MaxMountSteps /\ UnmountCanvas
    \/ steps < MaxMountSteps /\ MouseDown
    \/ steps < MaxMountSteps /\ MouseUp
    \/ steps < MaxMountSteps /\ MouseMove
    \/ steps < MaxMountSteps /\ KeyDown
    \/ steps < MaxMountSteps /\ KeyUp
    \/ steps < MaxMountSteps /\ Resize
    \/ steps < MaxMountSteps /\ TouchStart
    \/ steps < MaxMountSteps /\ TouchMove
    \/ steps < MaxMountSteps /\ TouchEnd

SpecMount == InitMount /\ [][NextMount]_vars

\* The frame loop, with the view changing between frames
InitFrame == Init /\ ~window.cvs.debug /\ window.throwing = {}

NextFrame ==
    \/ steps < MaxFrameSteps /\ MainLoop
    \/ steps < MaxFrameSteps /\ AnimationFrame
    \/ steps < MaxFrameSteps /\ PanBy
    \/ steps < MaxFrameSteps /\ ZoomBy
    \/ steps < MaxFrameSteps /\ ZoomToFit
    \/ steps < MaxFrameSteps /\ MouseMove
    \/ steps < MaxFrameSteps /\ Scroll
    \/ steps < MaxFrameSteps /\ Resize

SpecFrame == InitFrame /\ [][NextFrame]_vars

\* The debug overlay's commands: presses with a command hovered or not, zoomed or not
InitDebug == Init /\ ~window.cvs.autoResize /\ window.throwing = {}

NextDebug ==
    \/ steps < MaxDebugSteps /\ MouseDown
    \/ steps < MaxDebugSteps /\ KeyDown
    \/ steps < MaxDebugSteps /\ DrawDebugInfo
    \/ steps < MaxDebugSteps /\ ZoomBy
    \/ steps < MaxDebugSteps /\ Tick

SpecDebug == InitDebug /\ [][NextDebug]_vars

\* panBy in floating-point arithmetic
InitFloat ==
    /\ Init
    /\ ~window.cvs.debug /\ ~window.cvs.autoResize
    /\ window.cvs.callbacks = {} /\ window.throwing = {}

NextFloat ==
    \/ steps < MaxFloatSteps /\ PanByFloat

SpecFloat == InitFloat /\ [][NextFloat]_vars

\* Shortcuts: keys go down and up and the host tests shortcut strings
InitShortcut ==
    /\ Init
    /\ ~window.cvs.debug /\ ~window.cvs.autoResize
    /\ window.cvs.callbacks = {} /\ window.throwing = {}

NextShortcut ==
    \/ steps < MaxShortcutSteps /\ ShortcutKeyDown
    \/ steps < MaxShortcutSteps /\ ShortcutKeyUp
    \/ steps < MaxShortcutSteps /\ CheckShortcut
    \/ steps < MaxShortcutSteps /\ GetPressedShortcut

SpecShortcut == InitShortcut /\ [][NextShortcut]_vars

\* One-finger panning: the pan key is held on the keyboard while a finger drags,
\* at several zooms
InitTouchPan ==
    /\ Init
    /\ ~window.cvs.debug /\ ~window.cvs.autoResize
    /\ window.cvs.callbacks = Callbacks /\ window.throwing = {}

NextTouchPan ==
    \/ steps < MaxTouchPanSteps /\ ZoomBy
    \/ steps < MaxTouchPanSteps /\ KeyDown
    \/ steps < MaxTouchPanSteps /\ TouchStart
    \/ steps < MaxTouchPanSteps /\ TouchMove
    \/ steps < MaxTouchPanSteps /\ TouchEnd

SpecTouchPan == InitTouchPan /\ [][NextTouchPan]_vars

\* Host callbacks that raise: every event handler, all callbacks set and raising
InitThrow ==
    /\ Init
    /\ ~window.cvs.debug /\ ~window.cvs.autoResize
    /\ window.cvs.callbacks = Callbacks /\ window.throwing = Callbacks

NextThrow ==
    \/ steps < MaxThrowSteps /\ MouseDown
    \/ steps < MaxThrowSteps /\ MouseUp
    \/ steps < MaxThrowSteps /\ MouseMove
    \/ steps < MaxThrowSteps /\ Scroll
    \/ steps < MaxThrowSteps /\ KeyDown
    \/ steps < MaxThrowSteps /\ KeyUp
    \/ steps < MaxThrowSteps /\ Resize
    \/ steps < MaxThrowSteps /\ Blur
    \/ steps < MaxThrowSteps /\ Focus
    \/ steps < MaxThrowSteps /\ TouchStart
    \/ steps < MaxThrowSteps /\ TouchMove
    \/ steps < MaxThrowSteps /\ TouchEnd

SpecThrow == InitThrow /\ [][NextThrow]_vars

\* ------------------------------------------------------------------------
\* Properties
\* ------------------------------------------------------------------------
\* q is a finite number above zero
PosFinite(q) == IsFinite(q) /\ Lt(R(0), q)

\* toWorld of the contract is mapClientToCanvasCoordinates; screenPixelOf is its
\* inverse: the client pixel at which world point p is drawn
screenPixelOf(w, p) ==
    Pt(Add(Mul(Sub(p.x, w.cvs.canvasPanOffset.x), w.cvs.zoom), R(canvasLeft)),
       Add(Mul(Sub(p.y, w.cvs.canvasPanOffset.y), w.cvs.zoom), R(canvasTop)))

\* the world point under client pixel px
worldAt(w, px) == mapClientToCanvasCoordinates(w, px.x, px.y)

\* the stored pointer world position
pointerOf(w) == Pt(w.cvs.x, w.cvs.y)

\* the client pixel at the centre of the canvas
centrePixel(w) ==
    Pt(Add(R(canvasLeft), Div(w.canvas.width, R(2))),
       Add(R(canvasTop), Div(w.canvas.height, R(2))))

\* the client pixel of the canvas's top-left corner
originPixel == Pt(R(canvasLeft), R(canvasTop))

\* A viewport the contracts speak of: zoom > 0, a canvas with an area, and finite
\* pan offset and pointer
ValidView(w) ==
    /\ PosFinite(w.cvs.zoom)
    /\ PosFinite(w.canvas.width) /\ PosFinite(w.canvas.height)
    /\ IsFinite(w.cvs.canvasPanOffset.x) /\ IsFinite(w.cvs.canvasPanOffset.y)
    /\ IsFinite(w.cvs.x) /\ IsFinite(w.cvs.y)

\* C1 as stated: for zoom > 0 and f > 0, zoomBy(f) multiplies the zoom by f and the
\* world point under the pointer is drawn at the same screen pixel before and after.
C1_AnchorAtPointer ==
    [][(lastOp'.op = "zoomBy" /\ ValidView(window) /\ PosFinite(lastOp'.zoomFactor))
       => /\ window'.cvs.zoom = Mul(window.cvs.zoom, lastOp'.zoomFactor)
          /\ worldAt(window', screenPixelOf(window, pointerOf(window))) = pointerOf(window)
      ]_vars

\* C1 amended: for zoom > 0 and f > 0, zoomBy(f) multiplies the zoom by f, leaves the
\* pan offset unchanged, and its anchor is the canvas's top-left corner: the world
\* point drawn at that pixel is the same before and after.
C1_AnchorAtViewOrigin ==
    [][(lastOp'.op = "zoomBy" /\ ValidView(window) /\ PosFinite(lastOp'.zoomFactor))
       => /\ window'.cvs.zoom = Mul(window.cvs.zoom, lastOp'.zoomFactor)
          /\ window'.cvs.canvasPanOffset = window.cvs.canvasPanOffset
          /\ worldAt(window', originPixel) = worldAt(window, originPixel)
      ]_vars

\* C1 witness: zoomBy(2) has doubled a zoom of 1 with the pointer away from the
\* canvas's top-left corner and a pan offset other than (0, 0)
C1_Witness ==
    /\ lastOp.op = "zoomBy" /\ lastOp.zoomFactor = R(2)
    /\ window.cvs.zoom = R(2)
    /\ window.cvs.canvasPanOffset # Pt(R(0), R(0))
    /\ ValidView(window)
    /\ pointerOf(window) # window.cvs.canvasPanOffset

\* C3 as stated: zoomAtMouse, in or out, keeps the world point under the pointer at
\* the pointer's screen pixel.
C3_AnchoredAtPointer ==
    [][(lastOp'.op = "zoomAtMouse" /\ ValidView(window))
       => worldAt(window', screenPixelOf(window, pointerOf(window))) = pointerOf(window)
      ]_vars

\* C3 amended: on a viewport with zoom > 0 and a canvas with an area, zooming in keeps
\* the world point under the pointer at the pointer's screen pixel; zooming out keeps
\* the world point at the centre of the canvas at the centre.
C3_InAtPointerOutAtCentre ==
    [][(lastOp'.op = "zoomAtMouse" /\ ValidView(window))
       => IF lastOp'.zoomIn
          THEN worldAt(window', screenPixelOf(window, pointerOf(window))) = pointerOf(window)
          ELSE worldAt(window', centrePixel(window)) = worldAt(window, centrePixel(window))
      ]_vars

\* C3 witness: a zoomAtMouse(false) has run with the pointer away from
\* the centre of a valid viewport
C3_Witness ==
    /\ lastOp.op = "zoomAtMouse" /\ ~lastOp.zoomIn
    /\ window.cvs.zoom = Frac(9, 10)
    /\ ValidView(window)
    /\ pointerOf(window) # worldAt(window, centrePixel(window))

\* C9: the pointer world position a mouse move stores is
\* ((clientX - canvasLeft)/zoom + panOffset.x, (clientY - canvasTop)/zoom + panOffset.y)
\* for zoom > 0, and computing it changes nothing else.
C9_ToWorld ==
    [][(lastOp'.op = "mousemove" /\ PosFinite(window.cvs.zoom) /\ ~window.cvs.panning)
       => /\ window'.cvs.x = Add(Div(Sub(lastOp'.clientX, R(canvasLeft)), window.cvs.zoom),
                                 window.cvs.canvasPanOffset.x)
          /\ window'.cvs.y = Add(Div(Sub(lastOp'.clientY, R(canvasTop)), window.cvs.zoom),
                                 window.cvs.canvasPanOffset.y)
          /\ window' = [window EXCEPT !.cvs.x = window'.cvs.x, !.cvs.y = window'.cvs.y]
      ]_vars

\* C9 witness: a mouse move on a viewport zoomed to 2 and panned away from (0, 0)
C9_Witness ==
    /\ lastOp.op = "mousemove"
    /\ window.cvs.zoom = R(2)
    /\ window.cvs.canvasPanOffset = Pt(R(-5), R(3))
    /\ pointerOf(window) = Pt(R(10), R(23))

\* C10: panBy(dx, dy) subtracts (dx, dy) from the pan offset and from the stored
\* pointer world position and leaves zoom, canvas size, key state, mouse-down state
\* and the panning flag unchanged.
C10_PanByFrame ==
    [][lastOp'.op = "panBy"
       => /\ window'.cvs.canvasPanOffset =
                Pt(Sub(window.cvs.canvasPanOffset.x, lastOp'.dx),
                   Sub(window.cvs.canvasPanOffset.y, lastOp'.dy))
          /\ pointerOf(window') = Pt(Sub(window.cvs.x, lastOp'.dx), Sub(window.cvs.y, lastOp'.dy))
          /\ window'.cvs.zoom = window.cvs.zoom
          /\ window'.canvas = window.canvas
          /\ window'.cvs.keysDown = window.cvs.keysDown
          /\ window'.cvs.key = window.cvs.key
          /\ window'.cvs.mouseDown = window.cvs.mouseDown
          /\ window'.cvs.panning = window.cvs.panning
      ]_vars

\* C10 witness: panBy called while the pan key and the left button are held, panning
\* is on and the zoom is 2
C10_Witness ==
    /\ lastOp.op = "panBy"
    /\ KeyIsDown(window, PAN_KEY) /\ window.cvs.mouseDown = 0 /\ window.cvs.panning
    /\ window.cvs.zoom = R(2)

\* C2: zoom > 0 in every reachable state, also after a pinch whose touches meet in
\* one point.
C2_ZoomPositive == Lt(R(0), window.cvs.zoom)

\* C8: the context transform is the one derived from the stored state: scale equal
\* to zoom, translation equal to (-panOffset.x * zoom, -panOffset.y * zoom).
C8_TransformFromState ==
    window.ctx = [a |-> window.cvs.zoom,
                  e |-> Neg(Mul(window.cvs.canvasPanOffset.x, window.cvs.zoom)),
                  f |-> Neg(Mul(window.cvs.canvasPanOffset.y, window.cvs.zoom))]

\* C4: after a blur event every key is released and no mouse button is down,
\* whichever button (0, 1 or 2) was held.
C4_BlurReleasesAll ==
    lastOp.op = "blur"
    => /\ \A i \in 1..Len(window.cvs.keysDown) : ~window.cvs.keysDown[i].down
       /\ window.cvs.mouseDown = null

\* the one host callback the last handler invoked is name
FiredOnly(name) == Len(calls) = 1 /\ calls[1].cb = name

\* A press of button b handled as a click (debug mode off, no pan started) follows
\* another such press of b, the host having set its callbacks
SecondPress(b) ==
    /\ lastOp'.op = "mousedown" /\ lastOp'.button = b
    /\ pressedAt[b] # null /\ pressedAt'[b] # null
    /\ window.cvs.callbacks = Callbacks

\* C5 as stated: for any button, a second press less than DOUBLE_CLICK_DELAY ms after
\* the first fires exactly one double-click callback and no mouseDown callback; more
\* than DOUBLE_CLICK_DELAY ms after, exactly one mouseDown callback.
C5_DoubleClickAnyButton ==
    [][\A b \in Buttons :
         SecondPress(b)
         => /\ now - pressedAt[b] < DOUBLE_CLICK_DELAY => FiredOnly("mouseDoubleClick")'
            /\ now - pressedAt[b] > DOUBLE_CLICK_DELAY => FiredOnly("mouseDown")'
      ]_vars

\* C5 amended: the double click is detected for the left button (0) only: a second
\* left press less than DOUBLE_CLICK_DELAY ms after the first fires exactly one
\* double-click callback and no mouseDown callback, more than DOUBLE_CLICK_DELAY ms
\* after exactly one mouseDown callback; a press of another button handled as a
\* click always fires exactly one mouseDown callback.
C5_DoubleClickLeftButton ==
    [][\A b \in Buttons :
         SecondPress(b)
         => IF b = 0
            THEN /\ now - pressedAt[b] < DOUBLE_CLICK_DELAY => FiredOnly("mouseDoubleClick")'
                 /\ now - pressedAt[b] > DOUBLE_CLICK_DELAY => FiredOnly("mouseDown")'
            ELSE FiredOnly("mouseDown")'
      ]_vars

\* C5 witness: a second left press 299 ms after the first has fired the double-click
\* callback
C5_Witness ==
    /\ lastOp.op = "mousedown" /\ lastOp.button = 0
    /\ pressedAt[0] = now /\ now = StartTime + DOUBLE_CLICK_DELAY - 1
    /\ window.cvs.doubleClick
    /\ FiredOnly("mouseDoubleClick")

\* the client pixel midway between two touches
midPixel(fs) ==
    Pt(Div(Add(fs[1].clientX, fs[2].clientX), R(2)),
       Div(Add(fs[1].clientY, fs[2].clientY), R(2)))

\* the distance in client pixels between two touches
touchDistance(fs) ==
    MathHypot(Sub(fs[1].clientX, fs[2].clientX), Sub(fs[1].clientY, fs[2].clientY))

\* C6: the first move of a two-touch pinch, between touches that are apart before
\* and after it, leaves under the midpoint of the touches the world point that was
\* under their midpoint when the pinch started.
C6_PinchCentreFixed ==
    [][(/\ lastOp.op = "touchstart" /\ lastOp'.op = "touchmove"
        /\ Len(fingers) = 2 /\ window.cvs.touchesData.zoomEnabled
        /\ touchDistance(fingers) # R(0) /\ touchDistance(fingers') # R(0))
       => worldAt(window', midPixel(fingers')) = worldAt(window, midPixel(fingers))
      ]_vars

\* C7: after every move of a two-touch pinch started at distance D0 > 0 with zoom Z0,
\* the zoom is Z0 * (current distance / D0), whatever moves came before.
C7_PinchZoomRatio ==
    (/\ lastOp.op = "touchmove"
     /\ Len(fingers) = 2 /\ window.cvs.touchesData.zoomEnabled
     /\ window.cvs.touchesData.distance # R(0))
    => window.cvs.zoom = Mul(window.cvs.touchesData.originalZoom,
                             Div(touchDistance(fingers), window.cvs.touchesData.distance))

\* C11: panTo(x, y) produces the state panBy(viewBox.x - x, viewBox.y - y) produces,
\* and from any state leaves the pan offset at exactly (x, y).
C11_PanToReachesTarget ==
    [][lastOp'.op = "panTo"
       => /\ window' = panBy(window, Sub(window.cvs.canvasPanOffset.x, lastOp'.x),
                                     Sub(window.cvs.canvasPanOffset.y, lastOp'.y))
          /\ window'.cvs.canvasPanOffset = Pt(lastOp'.x, lastOp'.y)
      ]_vars

\* the pan key is recorded as held in the key state
PanKeyHeld == [code |-> "Space", down |-> TRUE] \in {window.cvs.keysDown[i] : i \in 1..Len(window.cvs.keysDown)}

\* C12 as stated: isPanTriggered is true exactly when the pan key is held and no mouse
\* button is down, or the pan mouse button is down.
C12_PanKeyAndNoButton ==
    isPanKeysPressed(window) <=> ((PanKeyHeld /\ window.cvs.mouseDown = null)
                                  \/ window.cvs.mouseDown = 1)

\* C12 amended: isPanKeysPressed is true exactly when the pan key is held and the left
\* button (0) is down, or the pan mouse button (1, the middle button) is down.
C12_PanKeyAndLeftButton ==
    isPanKeysPressed(window) <=> ((PanKeyHeld /\ window.cvs.mouseDown = 0)
                                  \/ window.cvs.mouseDown = 1)

\* C12 witness: a left press with the pan key held has started a pan
C12_Witness ==
    /\ lastOp.op = "mousedown" /\ lastOp.button = 0
    /\ PanKeyHeld /\ window.cvs.mouseDown = 0
    /\ isPanKeysPressed(window) /\ window.cvs.panning /\ window.cursor = "grabbing"

\* C13: a release of a mouse button over the canvas fires the mouseUp callback exactly
\* once with that button, except when the release ends an active pan: then panning is
\* stopped and the callback is not fired.  A release that ends no pan is never suppressed.
C13_MouseUpUnlessPanEnds ==
    [][(lastOp'.op = "mouseup" /\ lastOp'.target = "canvas" /\ "mouseUp" \in window.cvs.callbacks)
       => IF window.cvs.panning
          THEN ~window'.cvs.panning /\ calls' = <<>>
          ELSE Len(calls') = 1 /\ calls'[1].cb = "mouseUp" /\ calls'[1].a = lastOp'.button
      ]_vars

\* the calls of the last event that gave the key callback `name` the key `code`
KeyCalls(cs, name, code) == {i \in 1..Len(cs) : cs[i].cb = name /\ cs[i].a = code}

\* C14: the keyDown and keyUp callbacks are never invoked with the pan key code, whatever
\* the event (blur's synthesized key releases included), and a keydown of any other code
\* sets keysDown[code], makes it the last key and invokes the keyDown callback, when one
\* is set, exactly once with that code.
C14_PanKeyReserved ==
    [][/\ KeyCalls(calls', "keyDown", PAN_KEY) = {}
       /\ KeyCalls(calls', "keyUp", PAN_KEY) = {}
       /\ (lastOp'.op = "keydown" /\ lastOp'.code # PAN_KEY)
          => /\ KeyIsDown(window', lastOp'.code)
             /\ window'.cvs.key = lastOp'.code
             /\ "keyDown" \in window.cvs.callbacks
                => /\ Cardinality(KeyCalls(calls', "keyDown", lastOp'.code)) = 1
                   /\ Cardinality({i \in 1..Len(calls') : calls'[i].cb = "keyDown"}) = 1
      ]_vars

\* C14 witness: with the pan key already held, the keydown of another key reached the
\* keyDown callback
C14_Witness ==
    /\ lastOp.op = "keydown" /\ lastOp.code = "KeyA"
    /\ PanKeyHeld /\ KeyIsDown(window, "KeyA") /\ window.cvs.key = "KeyA"
    /\ Len(calls) = 1 /\ calls[1].cb = "keyDown" /\ calls[1].a = "KeyA"

\* C15: for a keydown of a non-pan key the browser default action is suppressed if and
\* only if the host's keyDown callback was called and returned true; with no callback
\* set, or a falsy return value, the default action is not suppressed.
C15_PreventDefaultIffCallbackTrue ==
    [][(lastOp'.op = "keydown" /\ lastOp'.code # PAN_KEY)
       => (prevented' <=> /\ \E i \in 1..Len(calls') : calls'[i].cb = "keyDown"
                          /\ lastOp'.ret)
      ]_vars

\* C15 witness: the keyDown callback returned true for a non-pan key and the default
\* action was suppressed
C15_Witness ==
    /\ lastOp.op = "keydown" /\ lastOp.code = "ShiftLeft" /\ lastOp.ret
    /\ Len(calls) = 1 /\ calls[1].cb = "keyDown" /\ calls[1].a = "ShiftLeft"
    /\ prevented

\* C16: a wheel event with a negative delta performs exactly one zoom-in step (zoom times
\* 1.1 at the pointer), with a positive delta exactly one zoom-out step (zoom times 0.9),
\* with a zero delta changes neither zoom nor pan offset; in all three cases the scroll
\* callback, when set, is invoked exactly once, with the raw delta and the pointer's
\* world coordinates as they are after the zoom.
C16_ScrollZoomsThenCalls ==
    [][lastOp'.op = "wheel"
       => /\ lastOp'.deltaY < 0
             => /\ window' = zoomAtMouse(window, TRUE)
                /\ window'.cvs.zoom = Mul(window.cvs.zoom, Frac(11, 10))
          /\ lastOp'.deltaY > 0
             => /\ window' = zoomAtMouse(window, FALSE)
                /\ window'.cvs.zoom = Mul(window.cvs.zoom, Frac(9, 10))
          /\ lastOp'.deltaY = 0
             => /\ window'.cvs.zoom = window.cvs.zoom
                /\ window'.cvs.canvasPanOffset = window.cvs.canvasPanOffset
          /\ "mouseScroll" \in window.cvs.callbacks
             => calls' = <<[cb |-> "mouseScroll", a |-> lastOp'.deltaY,
                            x |-> window'.cvs.x, y |-> window'.cvs.y]>>
      ]_vars

\* C16 witness: a wheel event zoomed in with the pointer away from the view origin, and
\* the scroll callback got the pointer coordinates
C16_Witness ==
    /\ lastOp.op = "wheel" /\ lastOp.deltaY < 0
    /\ Len(calls) = 1 /\ calls[1].cb = "mouseScroll"
    /\ PosFinite(window.cvs.zoom)
    /\ IsFinite(window.cvs.x) /\ window.cvs.x # window.cvs.canvasPanOffset.x

\* C17: after a resize event with autoResize enabled the pan offset is (0, 0), the zoom
\* is 1 and the canvas size is the container size times the device pixel ratio, from any
\* prior state; with autoResize disabled pan offset, zoom and canvas size are unchanged;
\* in both cases the resize callback, when set, is invoked exactly once.
C17_ResizeResetsView ==
    [][lastOp'.op = "resize"
       => /\ IF window.cvs.autoResize
             THEN /\ window'.cvs.canvasPanOffset = Pt(R(0), R(0))
                  /\ window'.cvs.zoom = R(1)
                  /\ window'.canvas = [width |-> R(lastOp'.parent[1] * lastOp'.dpr),
                                       height |-> R(lastOp'.parent[2] * lastOp'.dpr)]
             ELSE /\ window'.cvs.canvasPanOffset = window.cvs.canvasPanOffset
                  /\ window'.cvs.zoom = window.cvs.zoom
                  /\ window'.canvas = window.canvas
          /\ "resize" \in window.cvs.callbacks
             => Len(calls') = 1 /\ calls'[1].cb = "resize"
      ]_vars

\* the event types whose listeners setupAfterCanvas adds
ListenedEvents == {"mouseup", "touchend", "resize", "keydown", "keyup", "mousemove", "touchmove"}

\* C18: unmountCanvas deregisters every listener registered during setup (mouseup,
\* touchend, resize on window; keydown, keyup on the canvas; mousemove, touchmove on
\* document), none is registered again, and after unmount no such event changes the
\* viewport or input state or invokes a host callback.
C18_UnmountRemovesAll ==
    [][/\ lastOp'.op = "unmountCanvas" => window'.listeners \cap setupAfterCanvas = {}
       /\ window.listeners = {}
          => /\ window'.listeners = {}
             /\ lastOp'.op \in ListenedEvents => (window' = window /\ calls' = <<>>)
      ]_vars

\* C18 witness: after unmountCanvas a finger on the canvas moved and the event was
\* dropped
C18_Witness ==
    /\ window.listeners = {}
    /\ lastOp.op = "touchmove" /\ lastOp.touch.target = "canvas"
    /\ calls = <<>>
    /\ "mouseMove" \in window.cvs.callbacks

\* C19: every tick of the frame loop clears the canvas first, then invokes the draw
\* callback exactly once, then schedules exactly one next tick; once mainLoop is started
\* there is never more than one pending frame, and the draw callback never paints on a
\* frame that was not cleared.
C19_ClearDrawSchedule ==
    [][/\ lastOp'.op \in {"mainLoop", "animationFrame"}
          => /\ Len(calls') = 3
             /\ calls'[1].cb = "clean"
             /\ calls'[2].cb = "callback" /\ calls'[2].a = "cleared"
             /\ calls'[3].cb = "requestAnimationFrame"
             /\ window'.animationFrames = 1
       /\ window'.animationFrames <= 1
      ]_vars

\* the zoom operations of the zoom controller
ZoomOps == {"zoomBy", "zoomTo", "zoomAtMouse", "zoomToFit", "resetZoom"}

\* C20: when the canvas width or height is 0, a zoom operation (zoomBy, zoomTo,
\* zoomAtMouse, zoomToFit, resetZoom) signals an error and leaves zoom, pan offset and
\* the stored pointer coordinates unchanged, and it never stores NaN in the state.
C20_ZeroAreaRejected ==
    [][(lastOp'.op \in ZoomOps /\ (window.canvas.width = R(0) \/ window.canvas.height = R(0)))
       => /\ thrown'
          /\ window'.cvs.zoom = window.cvs.zoom
          /\ window'.cvs.canvasPanOffset = window.cvs.canvasPanOffset
          /\ pointerOf(window') = pointerOf(window)
          /\ ~IsNaN(window'.cvs.zoom)
          /\ ~IsNaN(window'.cvs.canvasPanOffset.x) /\ ~IsNaN(window'.cvs.canvasPanOffset.y)
          /\ ~IsNaN(window'.cvs.x) /\ ~IsNaN(window'.cvs.y)
      ]_vars

\* the events the handlers of C21 answer
HandlerEvents == {"mousedown", "mouseup", "mousemove", "wheel", "keydown", "keyup",
                  "resize", "blur", "touchstart", "touchmove", "touchend"}

\* What the handler of event op gives from window w, the pointer having been at client
\* pixel ms, the touches on the screen after the event being fs, at time t
EventHandled(w, op, ms, fs, t) ==
    CASE op.op = "mousedown" -> handleMouseDown(w, [button |-> op.button], t)
      [] op.op = "mouseup" -> handleMouseUp(w, [button |-> op.button, target |-> op.target])
      [] op.op = "mousemove" ->
            handleMouseMove(w, [clientX |-> op.clientX, clientY |-> op.clientY,
                                movementX |-> Sub(op.clientX, R(ms[1])),
                                movementY |-> Sub(op.clientY, R(ms[2]))])
      [] op.op = "wheel" -> handleScroll(w, [deltaY |-> op.deltaY])
      [] op.op = "keydown" -> handleKeyDown(w, [code |-> op.code, ret |-> op.ret])
      [] op.op = "keyup" -> handleKeyUp(w, [code |-> op.code], <<>>)
      [] op.op = "resize" -> handleResize(w, [parent |-> op.parent, dpr |-> op.dpr])
      [] op.op = "blur" -> handleBlur([w EXCEPT !.focused = FALSE], "e")
      [] op.op = "touchstart" ->
            IF op.touch.target = "canvas" THEN handleTouchStart(w, [touches |-> fs], t)
            ELSE Out(w, <<>>, FALSE, FALSE)
      [] op.op = "touchmove" -> handleTouchMove(w, [touches |-> fs, target |-> op.touch.target])
      [] op.op = "touchend" -> handleTouchEnd(w, [touches |-> fs, changedTouches |-> <<op.touch>>])

\* C21: in every event handler all the state updates are done before any host callback
\* is invoked: when a host callback raises, the state after the event is the state the
\* event leaves when the callbacks return normally.
C21_StateUpdatesBeforeCallbacks ==
    [][lastOp'.op \in HandlerEvents
       => window' = [EventHandled([window EXCEPT !.throwing = {}],
                                  lastOp', mouse, fingers', now).w
                     EXCEPT !.throwing = window.throwing]
      ]_vars

\* C22: with debug mode enabled, a left press while a debug command is hovered fires
\* that command's callback once (debug mode is closed, or the zoom is reset) and the
\* press is consumed: panning is not started, the drag origin and the time of the last
\* mouse down are unchanged, and no mouseDown or double-click callback fires.  With
\* debug mode disabled no command is fired.
C22_DebugPressConsumed ==
    [][lastOp'.op = "mousedown"
       => /\ (window.cvs.debug /\ lastOp'.button = 0 /\ window.cvs.debugCommandHover # "null")
             => /\ window.cvs.debugCommandHover = "Close debug mode"
                   => ~window'.cvs.debug /\ window'.cvs.zoom = window.cvs.zoom
                /\ window.cvs.debugCommandHover = "Reset zoom"
                   => /\ window'.cvs.debug
                      /\ window'.cvs.zoom = Mul(window.cvs.zoom, Div(R(1), window.cvs.zoom))
                /\ window'.cvs.panning = window.cvs.panning
                /\ window'.cursor = window.cursor
                /\ window'.cvs.draggingOrigin = window.cvs.draggingOrigin
                /\ window'.cvs.lastMouseDown = window.cvs.lastMouseDown
                /\ calls' = <<>>
          /\ ~window.cvs.debug
             => /\ ~window'.cvs.debug
                /\ window'.cvs.zoom = window.cvs.zoom
                /\ window'.ctx = window.ctx
      ]_vars

\* C22 witness: with the pan key held and the callbacks set, a left press on the hovered
\* "Reset zoom" command left the zoom at 1 and started no pan and no click
C22_Witness ==
    /\ lastOp.op = "mousedown" /\ lastOp.button = 0
    /\ window.cvs.debug /\ window.cvs.debugCommandHover = "Reset zoom"
    /\ PanKeyHeld /\ window.cvs.mouseDown = 0 /\ ~window.cvs.panning
    /\ window.cvs.zoom = R(1) /\ window.ctx.a = R(1)
    /\ pressedAt[0] = null
    /\ window.cvs.lastMouseDown = 0 /\ window.cvs.draggingOrigin = <<>>
    /\ "mouseDown" \in window.cvs.callbacks /\ calls = <<>>

\* C23: zoomTo is idempotent: from any state, zoomTo(z) called twice gives the same
\* zoom, pan offset and stored pointer coordinates as zoomTo(z) called once, and after
\* either call the zoom equals z.
C23_ZoomToIdempotent ==
    [][lastOp'.op = "zoomTo"
       => /\ window'.cvs.zoom = lastOp'.zoom
          /\ zoomTo(window', lastOp'.zoom).cvs.zoom = window'.cvs.zoom
          /\ zoomTo(window', lastOp'.zoom).cvs.canvasPanOffset = window'.cvs.canvasPanOffset
          /\ pointerOf(zoomTo(window', lastOp'.zoom)) = pointerOf(window')
      ]_vars

\* C24: from any reachable state, resetZoom() followed by resetPan() leaves the view box
\* at {x: 0, y: 0, width: canvas width, height: canvas height}: zoom 1, pan offset (0, 0).
C24_ResetsGiveFullView ==
    [][(lastOp.op = "resetZoom" /\ lastOp'.op = "resetPan")
       => /\ window'.cvs.zoom = R(1)
          /\ window'.cvs.canvasPanOffset = Pt(R(0), R(0))
          /\ getViewBox(window') = [x |-> R(0), y |-> R(0),
                                    width |-> window'.canvas.width,
                                    height |-> window'.canvas.height,
                                    x2 |-> window'.canvas.width,
                                    y2 |-> window'.canvas.height]
      ]_vars

\* the pan offset and pointer of w as panBy(-dx, -dy) leaves them
PannedBack(w, dx, dy) ==
    Val({<<v.cvs.canvasPanOffset, pointerOf(v)>> : v \in {panByFloat(w, Neg(dx), Neg(dy))}})

\* the subtraction a - b needs no rounding
ExactSub(a, b) == IsFinite(a) /\ IsFinite(b) /\ FloatSub(a, b) = Sub(a, b)

\* C25 as stated: for every state and every (dx, dy), panBy(dx, dy) followed by
\* panBy(-dx, -dy) restores the original pan offset and the original stored pointer
\* coordinates exactly.
C25_PanInverse ==
    [][lastOp'.op = "panBy"
       => PannedBack(window', lastOp'.dx, lastOp'.dy)
          = <<window.cvs.canvasPanOffset, pointerOf(window)>>
      ]_vars

\* C25 amended: panBy(dx, dy) followed by panBy(-dx, -dy) restores the original pan
\* offset and stored pointer coordinates exactly whenever the subtractions of
\* panBy(dx, dy) are exact (no rounding: whole-number offsets and deltas, for instance).
C25_PanInverseWhenExact ==
    [][(/\ lastOp'.op = "panBy"
        /\ ExactSub(window.cvs.canvasPanOffset.x, lastOp'.dx)
        /\ ExactSub(window.cvs.canvasPanOffset.y, lastOp'.dy)
        /\ ExactSub(window.cvs.x, lastOp'.dx)
        /\ ExactSub(window.cvs.y, lastOp'.dy))
       => PannedBack(window', lastOp'.dx, lastOp'.dy)
          = <<window.cvs.canvasPanOffset, pointerOf(window)>>
      ]_vars

\* C25 witness: panBy(5, -3) moved a pan offset of (16, -3) to (11, 0) without rounding,
\* and panBy(-5, 3) brings it back
C25_Witness ==
    /\ lastOp.op = "panBy" /\ lastOp.dx = R(5) /\ lastOp.dy = R(-3)
    /\ window.cvs.canvasPanOffset = Pt(R(11), R(0))
    /\ PannedBack(window, lastOp.dx, lastOp.dy)[1] = Pt(R(16), R(-3))

\* C26: zoomToFit(w, h) multiplies the zoom by min(viewBox.width / w, viewBox.height / h),
\* taken from the view box before the call, and leaves the pan offset unchanged.
C26_ZoomToFitFactor ==
    [][lastOp'.op = "zoomToFit"
       => /\ window'.cvs.zoom
             = Mul(window.cvs.zoom,
                   MathMin(Div(Div(window.canvas.width, window.cvs.zoom), lastOp'.toWidth),
                           Div(Div(window.canvas.height, window.cvs.zoom), lastOp'.toHeight)))
          /\ window'.cvs.canvasPanOffset = window.cvs.canvasPanOffset
      ]_vars

\* C26 witness: zoomToFit(30, 20) on the panned 60 x 80 canvas at zoom 1 doubled the
\* zoom (60 / 30 = 2 is less than 80 / 20 = 4) and kept the pan offset
C26_Witness ==
    /\ lastOp.op = "zoomToFit" /\ lastOp.toWidth = R(30) /\ lastOp.toHeight = R(20)
    /\ window.canvas = [width |-> R(60), height |-> R(80)]
    /\ window.cvs.zoom = R(2)
    /\ window.cvs.canvasPanOffset = Pt(R(-5), R(3))
\* C27: checkShortcut(s) returns true exactly when every key or alias named in s
\* has at least one of its key codes pressed and no key outside the key codes of
\* the aliases of s is pressed.
PressedCodes ==
    {window.cvs.keysDown[i].code : i \in {k \in 1..Len(window.cvs.keysDown) : window.cvs.keysDown[k].down}}

CodesOf(name) == {getKeysFromAlias(name)[i] : i \in 1..Len(getKeysFromAlias(name))}

NamesIn(string) == {split(string)[i] : i \in 1..Len(split(string))}

C27_CheckShortcutIff ==
    lastOp.op = "checkShortcut" =>
        (lastOp.result <=>
            /\ \A name \in NamesIn(lastOp.string) : CodesOf(name) \cap PressedCodes # {}
            /\ PressedCodes \subseteq UNION {CodesOf(name) : name \in NamesIn(lastOp.string)})

\* "Shift+z" is tested and found pressed with the right shift key and Z down
C27_Witness ==
    /\ lastOp.op = "checkShortcut"
    /\ lastOp.string = <<"Shift", "+", "z">>
    /\ lastOp.result
    /\ PressedCodes = {"ShiftRight", "KeyZ"}

\* C28: while panning is active a pointer move applies panBy with the movement divided
\* by the zoom (the pan offset decreases by it, the context is translated by it) and
\* does not invoke the mouseMove callback; while panning is not active a pointer move
\* invokes the mouseMove callback, when one is set, exactly once and leaves the pan
\* offset unchanged.
MouseMoveCalls(cs) == {i \in 1..Len(cs) : cs[i].cb = "mouseMove"}

C28_MovePansOrCalls ==
    [][lastOp'.op = "mousemove"
       => /\ isPanning(window)
             => /\ window'.cvs.canvasPanOffset.x
                     = Sub(window.cvs.canvasPanOffset.x,
                           Div(R(mouse'[1] - mouse[1]), window.cvs.zoom))
                /\ window'.cvs.canvasPanOffset.y
                     = Sub(window.cvs.canvasPanOffset.y,
                           Div(R(mouse'[2] - mouse[2]), window.cvs.zoom))
                /\ window'.ctx = ctxTranslate(window.ctx,
                                     Div(R(mouse'[1] - mouse[1]), window.cvs.zoom),
                                     Div(R(mouse'[2] - mouse[2]), window.cvs.zoom))
                /\ MouseMoveCalls(calls') = {}
          /\ ~isPanning(window)
             => /\ window'.cvs.canvasPanOffset = window.cvs.canvasPanOffset
                /\ "mouseMove" \in window.cvs.callbacks
                   => Cardinality(MouseMoveCalls(calls')) = 1
      ]_vars

\* C28 witness: at zoom 2, with a mouseMove callback set, a pointer move of 30 screen
\* pixels to the right during a pan moved the pan offset by 15 and called nothing
C28_Witness ==
    /\ lastOp.op = "mousemove"
    /\ isPanning(window)
    /\ window.cvs.zoom = R(2)
    /\ window.cvs.canvasPanOffset.x = R(-15)
    /\ "mouseMove" \in window.cvs.callbacks
    /\ calls = <<>>

\* C29: when a button is down without a pan in progress and the pan key is then
\* pressed, panning becomes active, and the pointer move that follows the key press
\* pans the view (the pan offset decreases by movement / zoom) instead of invoking
\* the mouseMove callback.
C29_PanKeyMidDragPans ==
    [][/\ (/\ lastOp'.op = "keydown" /\ lastOp'.code = PAN_KEY
           /\ window.cvs.mouseDown # null /\ ~isPanning(window))
          => isPanning(window')
       /\ (/\ lastOp.op = "keydown" /\ lastOp.code = PAN_KEY
           /\ window.cvs.mouseDown # null
           /\ lastOp'.op = "mousemove")
          => /\ window'.cvs.canvasPanOffset.x
                  = Sub(window.cvs.canvasPanOffset.x,
                        Div(R(mouse'[1] - mouse[1]), window.cvs.zoom))
             /\ window'.cvs.canvasPanOffset.y
                  = Sub(window.cvs.canvasPanOffset.y,
                        Div(R(mouse'[2] - mouse[2]), window.cvs.zoom))
             /\ MouseMoveCalls(calls') = {}
      ]_vars

\* The pointer move alone: after the pan key went down with a button held, the move
\* pans and calls nothing
C29_MoveAfterPanKeyPans ==
    [][(/\ lastOp.op = "keydown" /\ lastOp.code = PAN_KEY
        /\ window.cvs.mouseDown # null
        /\ lastOp'.op = "mousemove")
       => /\ window'.cvs.canvasPanOffset.x
               = Sub(window.cvs.canvasPanOffset.x,
                     Div(R(mouse'[1] - mouse[1]), window.cvs.zoom))
          /\ MouseMoveCalls(calls') = {}
      ]_vars

\* What the handlers do instead: the pan key pressed with a button down and no pan in
\* progress leaves panning inactive, and the move that follows leaves the pan offset
\* unchanged and invokes the mouseMove callback when one is set
C29_PanKeyMidDragDoesNotPan ==
    [][/\ (/\ lastOp'.op = "keydown" /\ lastOp'.code = PAN_KEY
           /\ window.cvs.mouseDown # null /\ ~isPanning(window))
          => /\ ~isPanning(window')
             /\ window'.cursor = "grab"
       /\ (/\ lastOp.op = "keydown" /\ lastOp.code = PAN_KEY
           /\ window.cvs.mouseDown # null /\ ~isPanning(window)
           /\ lastOp'.op = "mousemove")
          => /\ window'.cvs.canvasPanOffset = window.cvs.canvasPanOffset
             /\ "mouseMove" \in window.cvs.callbacks
                => Cardinality(MouseMoveCalls(calls')) = 1
      ]_vars

\* The left button went down, then the pan key, then the pointer moved: the mouseMove
\* callback was invoked and nothing was panned
C29_MidDragMoveSeen ==
    /\ lastOp.op = "mousemove"
    /\ window.cvs.mouseDown = 0
    /\ KeyIsDown(window, PAN_KEY)
    /\ ~isPanning(window)
    /\ Cardinality(MouseMoveCalls(calls)) = 1
    /\ window.cvs.canvasPanOffset.x = R(0) /\ window.cvs.canvasPanOffset.y = R(0)

\* C30: a keyup of a code records the code as released in keysDown and sets the last
\* key to none, other keys still held or not; when the code is the pan key, panning is
\* inactive afterwards (however it started, the pan mouse button still held included)
\* and the keyUp callback is not invoked; for any other code the keyUp callback, when
\* set, is invoked exactly once, with that code, and the panning flag is unchanged.
KeyReleased(w, code) ==
    \E i \in 1..Len(w.cvs.keysDown) :
        w.cvs.keysDown[i].code = code /\ ~w.cvs.keysDown[i].down

KeyUpCalls(cs) == {i \in 1..Len(cs) : cs[i].cb = "keyUp"}

C30_KeyUpReleases ==
    [][lastOp'.op = "keyup"
       => /\ KeyReleased(window', lastOp'.code)
          /\ ~KeyIsDown(window', lastOp'.code)
          /\ \A code \in Keys \ {lastOp'.code} :
                KeyIsDown(window', code) = KeyIsDown(window, code)
          /\ window'.cvs.key = "null"
          /\ lastOp'.code = PAN_KEY
             => /\ ~isPanning(window')
                /\ KeyUpCalls(calls') = {}
          /\ lastOp'.code # PAN_KEY
             => /\ isPanning(window') = isPanning(window)
                /\ "keyUp" \in window.cvs.callbacks
                   => /\ Cardinality(KeyUpCalls(calls')) = 1
                      /\ Cardinality(KeyCalls(calls', "keyUp", lastOp'.code)) = 1
      ]_vars

\* C30 witness: the pan key was released while the pan mouse button and another key
\* are still held: panning is inactive, the last key is none, nothing was called
C30_Witness ==
    /\ lastOp.op = "keyup" /\ lastOp.code = PAN_KEY
    /\ window.cvs.mouseDown = PAN_MOUSE_BUTTON
    /\ KeyIsDown(window, "KeyA")
    /\ KeyReleased(window, PAN_KEY)
    /\ window.cvs.key = "null"
    /\ ~isPanning(window)
    /\ "keyUp" \in window.cvs.callbacks
    /\ calls = <<>>

\* C31: pinch mode is enabled only while exactly two touch points are active: after
\* every touch start, move or end, touchesData.zoomEnabled implies that exactly two
\* touches are active, and a touch end that leaves fewer than two active touches
\* leaves no pinch session data (initial distance, initial zoom, initial centre).
PinchSessionFields == {"distance", "originalZoom", "originalX", "originalY"}

C31_PinchOnlyWithTwoTouches ==
    [][/\ window'.cvs.touchesData.zoomEnabled => Len(fingers') = 2
       /\ (lastOp'.op = "touchend" /\ Len(fingers') < 2)
          => /\ ~window'.cvs.touchesData.zoomEnabled
             /\ DOMAIN window'.cvs.touchesData \cap PinchSessionFields = {}
      ]_vars

\* What the handlers do keep: pinch mode needs at least two active touches, and the
\* touch end that leaves fewer than two clears the session
C31_PinchNeedsTwoTouches ==
    [][/\ window'.cvs.touchesData.zoomEnabled => Len(fingers') >= 2
       /\ lastOp'.op = "touchend"
          => /\ ~window'.cvs.touchesData.zoomEnabled
             /\ DOMAIN window'.cvs.touchesData \cap PinchSessionFields = {}
      ]_vars

\* Two touches started a pinch on the canvas and a third touch is down outside it
C31_ThirdTouchSeen ==
    /\ lastOp.op = "touchstart" /\ lastOp.touch.target = "div"
    /\ Len(fingers) = 3
    /\ window.cvs.touchesData.zoomEnabled

\* C32: in every state reached by pointer moves, pans, scroll zooms, zoomBy, zoomTo,
\* zoomToFit, resetZoom, resetPan and auto-resize events, the stored pointer position
\* is the world position of the last pointer screen position:
\* (pointer - panOffset) * zoom is the pointer's pixel offset from the canvas origin.
C32_PointerConsistent ==
    /\ Mul(Sub(window.cvs.x, window.cvs.canvasPanOffset.x), window.cvs.zoom)
         = R(mouse[1] - canvasLeft)
    /\ Mul(Sub(window.cvs.y, window.cvs.canvasPanOffset.y), window.cvs.zoom)
         = R(mouse[2] - canvasTop)

\* resetPan has just run at zoom 1 on a canvas of nonzero size, and the stored pointer
\* is not where the pointer is
C32_StaleAfterResetPan ==
    /\ lastOp.op = "resetPan"
    /\ window.cvs.zoom = R(1)
    /\ CanvasVisible
    /\ IsFinite(window.cvs.x) /\ IsFinite(window.cvs.y)
    /\ window.cvs.x # R(mouse[1] - canvasLeft)

\* C33: after a blur event panning is not active and the handler has completed
\* without raising, whether the pan was started by the pan key plus the left button
\* or by the pan mouse button held alone.
C33_BlurEndsPan ==
    [][lastOp'.op = "blur" => (~isPanning(window') /\ ~thrown')]_vars

\* What holds: a blur during a pan held by the pan key ends the pan without raising
\* when the button held is the left one or none
C33_BlurEndsPanKeyPan ==
    [][(/\ lastOp'.op = "blur"
        /\ KeyIsDown(window, PAN_KEY)
        /\ window.cvs.mouseDown \in {null, 0})
       => (~isPanning(window') /\ ~thrown')]_vars

\* A blur came during a pan held by the pan mouse button alone: the handler raised
\* and panning is still active
C33_BlurRaisedSeen ==
    /\ lastOp.op = "blur"
    /\ window.cvs.mouseDown = PAN_MOUSE_BUTTON
    /\ ~KeyIsDown(window, PAN_KEY)
    /\ isPanning(window)
    /\ thrown

\* C34: starting a pinch does not register as a click: when a second touch starts on
\* the canvas while the first is still down, less than DOUBLE_CLICK_DELAY ms after
\* the first touch start, neither the mouseDoubleClick callback nor the mouseDown
\* callback is invoked.
ClickCalls(cs) == {i \in 1..Len(cs) : cs[i].cb \in {"mouseDoubleClick", "mouseDown"}}

C34_PinchStartIsNoClick ==
    [][(/\ lastOp'.op = "touchstart"
        /\ Len(fingers) = 1 /\ Len(fingers') = 2
        /\ window.cvs.touches # <<>>
        /\ now - window.cvs.lastMouseDown < DOUBLE_CLICK_DELAY
        /\ window'.cvs.touchesData.zoomEnabled)
       => ClickCalls(calls') = {}]_vars

\* The second touch has started a pinch and the double-click callback was invoked
C34_PinchStartDoubleClickSeen ==
    /\ lastOp.op = "touchstart"
    /\ Len(fingers) = 2
    /\ window.cvs.touchesData.zoomEnabled
    /\ window.cvs.doubleClick
    /\ Len(calls) = 1 /\ calls[1].cb = "mouseDoubleClick"

\* C35: single-touch panning is equivalent to mouse panning: while panning is active
\* and no pinch is in progress, a touch move of one finger changes the pan offset as
\* a mouse move with the same on-screen displacement does, by displacement / zoom.
TouchDisplacementX == Sub(fingers'[1].clientX, fingers[1].clientX)

TouchDisplacementY == Sub(fingers'[1].clientY, fingers[1].clientY)

C35_TouchPanLikeMousePan ==
    [][(/\ lastOp'.op = "touchmove"
        /\ Len(fingers) = 1
        /\ isPanning(window)
        /\ ~window.cvs.touchesData.zoomEnabled)
       => /\ window'.cvs.canvasPanOffset.x
               = Sub(window.cvs.canvasPanOffset.x,
                     Div(TouchDisplacementX, window.cvs.zoom))
          /\ window'.cvs.canvasPanOffset.y
               = Sub(window.cvs.canvasPanOffset.y,
                     Div(TouchDisplacementY, window.cvs.zoom))
          /\ window'.cvs.canvasPanOffset
               = handleMouseMove(window, [clientX |-> fingers'[1].clientX,
                                          clientY |-> fingers'[1].clientY,
                                          movementX |-> TouchDisplacementX,
                                          movementY |-> TouchDisplacementY]
                                ).w.cvs.canvasPanOffset
      ]_vars

\* What holds: at zoom 1 the one-finger pan moves the pan offset by the displacement
C35_TouchPanAtZoomOne ==
    [][(/\ lastOp'.op = "touchmove"
        /\ Len(fingers) = 1
        /\ isPanning(window)
        /\ ~window.cvs.touchesData.zoomEnabled
        /\ window.cvs.zoom = R(1))
       => /\ window'.cvs.canvasPanOffset.x
               = Sub(window.cvs.canvasPanOffset.x, TouchDisplacementX)
          /\ window'.cvs.canvasPanOffset.y
               = Sub(window.cvs.canvasPanOffset.y, TouchDisplacementY)
      ]_vars

\* What the handlers do: the one-finger pan moves the pan offset by
\* displacement / zoom^3
C35_TouchPanDividesThrice ==
    [][(/\ lastOp'.op = "touchmove"
        /\ Len(fingers) = 1
        /\ isPanning(window)
        /\ ~window.cvs.touchesData.zoomEnabled
        /\ PosFinite(window.cvs.zoom))
       => window'.cvs.canvasPanOffset.x
            = Sub(window.cvs.canvasPanOffset.x,
                  Div(Div(Div(TouchDisplacementX, window.cvs.zoom), window.cvs.zoom),
                      window.cvs.zoom))
      ]_vars

\* At zoom 2 a finger moved 30 pixels to the right during a pan and the pan offset
\* moved by 30/8, not by 15
C35_TouchPanAtZoomTwoSeen ==
    /\ lastOp.op = "touchmove"
    /\ Len(fingers) = 1
    /\ isPanning(window)
    /\ window.cvs.zoom = R(2)
    /\ window.cvs.canvasPanOffset.x = Frac(-15, 4)

\* C36: among left-button presses handled as clicks, a press less than
\* DOUBLE_CLICK_DELAY ms after the previous press invokes the mouseDoubleClick
\* callback and nothing else, whatever the previous press invoked (the timestamp is
\* refreshed on every press); a press DOUBLE_CLICK_DELAY ms or more after the
\* previous one, and the first press of all, invokes the mouseDown callback.
C36_RapidClicks ==
    [][(/\ lastOp'.op = "mousedown" /\ lastOp'.button = 0
        /\ pressedAt'[0] # null
        /\ window.cvs.callbacks = Callbacks)
       => /\ (pressedAt[0] # null /\ now - pressedAt[0] < DOUBLE_CLICK_DELAY)
             => FiredOnly("mouseDoubleClick")'
          /\ (pressedAt[0] # null /\ now - pressedAt[0] >= DOUBLE_CLICK_DELAY)
             => FiredOnly("mouseDown")'
          /\ steps = 0 => FiredOnly("mouseDown")'
      ]_vars

\* C36 witness: a left press 299 ms after a left press that itself came 299 ms after
\* the start has fired the double-click callback
C36_Witness ==
    /\ lastOp.op = "mousedown" /\ lastOp.button = 0
    /\ steps = 5
    /\ now = StartTime + 2 * (DOUBLE_CLICK_DELAY - 1)
    /\ pressedAt[0] = now
    /\ window.cvs.lastMouseDown = now
    /\ FiredOnly("mouseDoubleClick")

\* C37: with the pointer stationary, one zoom-in step followed by one zoom-out step,
\* or the reverse, restores the zoom factor the view had before the two steps.
C37_ZoomStepRoundTrip ==
    /\ zoomOut(zoomIn(window)).cvs.zoom = window.cvs.zoom
    /\ zoomIn(zoomOut(window)).cvs.zoom = window.cvs.zoom

\* What the steps do: in and out together multiply the zoom by 1.1 * 0.9 = 0.99
C37_ZoomStepsShrink ==
    /\ zoomOut(zoomIn(window)).cvs.zoom = Mul(window.cvs.zoom, Frac(99, 100))
    /\ zoomIn(zoomOut(window)).cvs.zoom = Mul(window.cvs.zoom, Frac(99, 100))

\* From zoom 1 a zoom-in step and a zoom-out step have run and the zoom is 0.99
C37_RoundTripSeen ==
    /\ steps = 2
    /\ lastOp.op = "zoomAtMouse" /\ ~lastOp.zoomIn
    /\ window.cvs.zoom = Frac(99, 100)

\* C38: for every set of pressed keys, getPressedShortcut returns the same string
\* when the left variant of a pressed modifier (Control, Alt, Shift, Meta) is replaced
\* by its right variant, and the string names a modifier exactly when one of its two
\* variants is pressed.
Modifiers ==
    {[name |-> "control", left |-> "ControlLeft", right |-> "ControlRight"],
     [name |-> "alt", left |-> "AltLeft", right |-> "AltRight"],
     [name |-> "shift", left |-> "ShiftLeft", right |-> "ShiftRight"],
     [name |-> "meta", left |-> "MetaLeft", right |-> "MetaRight"]}

\* the window with the left variant of m released and its right variant pressed
RightForLeft(w, m) ==
    [w EXCEPT !.cvs.keysDown = SetKey(SetKey(@, m.left, FALSE), m.right, TRUE)]

ShortcutNames(string, name) == \E i \in 1..Len(string) : string[i] = name

ModifierSymmetry(ms) ==
    \A m \in ms :
        /\ (KeyIsDown(window, m.left) /\ ~KeyIsDown(window, m.right))
           => getPressedShortcut(RightForLeft(window, m)) = getPressedShortcut(window)
        /\ ShortcutNames(getPressedShortcut(window), m.name)
           <=> (KeyIsDown(window, m.left) \/ KeyIsDown(window, m.right))

C38_ModifierSymmetry == ModifierSymmetry(Modifiers)

\* What holds: the symmetry for Control, Shift and Meta
C38_SymmetryButAlt == ModifierSymmetry({m \in Modifiers : m.name # "alt"})

\* getPressedShortcut was called with the right Alt key and A down and returned "a"
C38_RightAltSeen ==
    /\ lastOp.op = "getPressedShortcut"
    /\ KeyIsDown(window, "AltRight") /\ KeyIsDown(window, "KeyA")
    /\ ~KeyIsDown(window, "AltLeft")
    /\ lastOp.result = <<"a">>

====
